---- MODULE Spec2Model ----
(***************************************************************************)
(* Streaming session and job pipeline of the advanced backend: one audio   *)
(* session, its speech-detection task (F), its conversation controllers    *)
(* (G, open_conversation_job with handle_end_of_conversation), the Redis   *)
(* keys they share and the conversation documents they write.              *)
(*                                                                         *)
(* Time is in whole seconds.  A task that sleeps is resumed no earlier     *)
(* than it asked for and possibly much later, so a sleep advances the      *)
(* clock by one of the delays in Delays.                                   *)
(***************************************************************************)
EXTENDS Integers, Sequences, FiniteSets, TLC

(* ---- bounds of the model ---- *)
MaxConvs == 2      \* controllers (and so conversations) launched per session
MaxText == 3       \* words of text analyze_speech is called with
MaxLimit == 2      \* the limit search_obsidian is called with
MaxWords == 2      \* words on the results stream at any one time
MaxSleeps == 2     \* sleeps taken over the whole session
WordSecs == 5      \* seconds of audio one transcribed word lasts
MinWords == 2      \* SPEECH_DETECTION_MIN_WORDS of this deployment
MaxVersions == 2   \* transcript versions, and memory versions, of the document
MaxReprocess == 2  \* reprocess_transcript requests accepted
ShortText == 4     \* characters of a transcript too short for memory extraction
LongText == 12     \* characters of a transcript long enough for it

(* ---- program constants ---- *)
MinConfidence == 50              \* percent; SPEECH_DETECTION_MIN_CONFIDENCE 0.5
MinDuration == 10                \* SPEECH_DETECTION_MIN_DURATION
inactivity_timeout_seconds == 60 \* SPEECH_INACTIVITY_THRESHOLD_SECONDS
max_runtime == 10740
CountKeyTTL == 3600
AudioFileWait == 30
MinChars == 10                   \* process_memory_job: shortest usable text
LowConfidence == 30              \* a word below MinConfidence
HighConfidence == 80             \* a word above MinConfidence

Delays == {1, inactivity_timeout_seconds, max_runtime}
\* The host runs on UTC or on a zone one hour ahead of it.
UtcOffsets == {0, 3600}

GIds == 1..MaxConvs
FIds == 0..MaxConvs              \* 0: the job the connection handler enqueued
NoTime == -1

VARIABLES
  now,                  \* wall clock
  sleeps,               \* sleeps taken so far (bounded by MaxSleeps)
  wait_for_queue_drain, \* WAIT_FOR_AUDIO_QUEUE_DRAIN of this deployment
  utc_offset,           \* seconds the host's local time is ahead of UTC
  status,               \* audio:session:{sid} status
  completion_reason,    \* audio:session:{sid} completion_reason
  session_ttl,          \* audio:session:{sid} has been given an expiry
  stream,               \* transcription:results:{sid}: the words on it
  conv_current,         \* conversation:current:{sid} (0: key absent)
  audio_file,           \* conversations c with audio:file:{c} published
  count_key,            \* session:conversation_count:{sid}: value and expiry
  convs,                \* conversation documents, by conversation id
  f_queue,              \* queued speech-detection jobs (job ids)
  f_running,            \* running speech-detection jobs (job ids)
  speech_jobs,          \* job records of speech-detection jobs, by job id
  g,                    \* conversation controllers, by launch number
  g_records,            \* controllers whose own job record (rq:job:{id}) exists
  chain,                \* conversations whose post-processing chain is enqueued
  hist,                 \* history: facts about the run the claims refer to
                        \* (f_enqueued: every speech-detection job id enqueued)
  doc,                  \* the stored document of one closed, non-deleted
                        \* conversation: its versions and active pointers
  jobs,                 \* status of the reprocessing chain's jobs T, S, X, M
  reprocess_count,      \* reprocess_transcript requests accepted so far
  mem,                  \* process_memory_job: position, loaded document, the
                        \* version ids uuid4 has handed out, what it read of
                        \* the speakers and what it returned
  analysis,             \* analyze_speech: the transcript data of the last call
                        \* and what it returned
  search,               \* search_obsidian: what the last call met and what
                        \* came of it
  end_write,            \* handle_end_of_conversation's write of end_reason:
                        \* position and loaded document
  summary_job,          \* generate_title_summary_job: position, loaded
                        \* document and what it returned
  db,                   \* the conversations collection, by conversation_id
  disk,                 \* conversations whose audio file exists on disk
  rq,                   \* jobs the endpoints have enqueued
  response              \* the last response an endpoint returned

vars == <<now, sleeps, wait_for_queue_drain, utc_offset, status, completion_reason,
          session_ttl, stream, conv_current, audio_file, count_key, convs,
          f_queue, f_running, speech_jobs, g, g_records, chain,
          hist, doc, jobs, reprocess_count, mem, summary_job, end_write, db,
          disk, rq,
          response, analysis, search>>

session_vars == <<now, sleeps, wait_for_queue_drain, utc_offset, status, completion_reason,
                  session_ttl, stream, conv_current, audio_file, count_key,
                  convs, f_queue, f_running, speech_jobs, g, g_records, chain,
                  hist>>

store_vars == <<doc, jobs, reprocess_count, mem, summary_job, end_write>>

api_vars == <<db, disk, rq, response>>

speech_vars == <<analysis>>

search_vars == <<search>>

(***************************************************************************)
(* Pure helpers                                                            *)
(***************************************************************************)

\* TranscriptionResultsAggregator.get_combined_results: every result on the
\* stream merged in stream order; text is counted in whitespace-separated words.
Combined(s) == [text |-> Len(s), words |-> s, chunk_count |-> Len(s)]

IsValidWord(w) == w.confidence >= MinConfidence

\* analyze_speech without the duration check.
AnalyzeSpeech_NoDuration(text, words) ==
  LET valid_words == SelectSeq(words, IsValidWord)
      fallback == IF text > 0 /\ text >= MinWords
                  THEN [has_speech |-> TRUE, word_count |-> text, duration |-> 0]
                  ELSE [has_speech |-> FALSE, word_count |-> 0, duration |-> 0]
  IN IF Len(words) > 0
     THEN IF Len(valid_words) < MinWords
          THEN [has_speech |-> FALSE, word_count |-> Len(valid_words), duration |-> 0]
          ELSE IF Len(valid_words) > 0
               THEN [has_speech |-> TRUE, word_count |-> Len(valid_words),
                     duration |-> valid_words[Len(valid_words)].end - valid_words[1].start]
               ELSE fallback
     ELSE fallback

\* analyze_speech: text is the number of whitespace-separated words of the
\* stripped text, words the word-level data.
AnalyzeSpeech(text, words) ==
  LET valid_words == SelectSeq(words, IsValidWord)
      fallback == IF text > 0 /\ text >= MinWords
                  THEN [has_speech |-> TRUE, word_count |-> text, duration |-> 0]
                  ELSE [has_speech |-> FALSE, word_count |-> 0, duration |-> 0]
  IN IF Len(words) > 0
     THEN IF Len(valid_words) < MinWords
          THEN [has_speech |-> FALSE, word_count |-> Len(valid_words), duration |-> 0]
          ELSE IF Len(valid_words) > 0
               THEN LET speech_duration ==
                          valid_words[Len(valid_words)].end - valid_words[1].start
                    IN IF speech_duration < MinDuration
                       THEN [has_speech |-> FALSE, word_count |-> Len(valid_words),
                             duration |-> speech_duration]
                       ELSE [has_speech |-> TRUE, word_count |-> Len(valid_words),
                             duration |-> speech_duration]
               ELSE fallback
     ELSE fallback

IsMeaningfulSpeech_TextOnly(combined) == combined.text >= MinWords

IsMeaningfulSpeech(combined) ==
  IF combined.text = 0 THEN FALSE
  ELSE AnalyzeSpeech(combined.text, combined.words).has_speech

\* track_speech_activity taking a word count that has not grown for speech.
TrackSpeechActivity_AtLeast(current_word_count, last_word_count, t) ==
  IF current_word_count >= last_word_count
  THEN [time |-> t, word_count |-> current_word_count]
  ELSE [time |-> NoTime, word_count |-> last_word_count]

\* track_speech_activity: (new last-speech time or NoTime, remembered word count)
TrackSpeechActivity(current_word_count, last_word_count, t) ==
  IF current_word_count > last_word_count
  THEN [time |-> t, word_count |-> current_word_count]
  ELSE [time |-> NoTime, word_count |-> last_word_count]

\* The loop's and the end reason's test of the job's runtime.
RuntimeExceeded_Hours(elapsed) == elapsed > max_runtime + inactivity_timeout_seconds

RuntimeExceeded(elapsed) == elapsed > max_runtime

\* The loop's test of the time since the last new speech.
InactivityExceeded_AtLeast(inactivity_duration) ==
  inactivity_duration >= inactivity_timeout_seconds

InactivityExceeded(inactivity_duration) ==
  inactivity_duration > inactivity_timeout_seconds

DetermineEndReason_NoDisconnect(completion_reason_str, timeout_triggered, over_runtime) ==
  IF timeout_triggered THEN "inactivity_timeout"
  ELSE IF over_runtime THEN "max_duration"
  ELSE "user_stopped"

\* The end reason open_conversation_job derives after its loop.
DetermineEndReason(completion_reason_str, timeout_triggered, over_runtime) ==
  IF completion_reason_str = "websocket_disconnect" THEN "websocket_disconnect"
  ELSE IF timeout_triggered THEN "inactivity_timeout"
  ELSE IF over_runtime THEN "max_duration"
  ELSE "user_stopped"

\* Redis: a key with an expiry is gone once the expiry time is reached.
CountValue(t) ==
  IF count_key.exp # NoTime /\ t >= count_key.exp THEN 0 ELSE count_key.val

\* INCR followed by EXPIRE(ttl) at time t.
IncrAndExpire(t) == [val |-> CountValue(t) + 1, exp |-> t + CountKeyTTL]

(***************************************************************************)
(* Initial state: the connection handler has created the session, set it   *)
(* active and enqueued the first speech-detection job.                     *)
(***************************************************************************)

NoController ==
  [pc |-> "none", cid |-> 0, speech_job_id |-> 0, start_time |-> 0,
   last_meaningful_speech_time |-> 0, last_word_count |-> 0,
   timeout_triggered |-> FALSE,
   finalize_received |-> FALSE, end_reason |-> "none", wait_start |-> 0,
   file_path |-> FALSE, conversation_count |-> 0, meta_conversation_id |-> 0]

NoSpeechJob == [exists |-> FALSE, conversation_id |-> 0]

\* Version ids are strings; None is Python's None.
None == "None"
TranscriptIds == {"t1", "t2"}
MemoryIds == {"m1", "m2"}
ChainJobs == {"T", "S", "X", "M"}

\* The principals of the HTTP surface and the conversation ids they ask for.
Alice == [user_id |-> "alice", is_superuser |-> FALSE]
Bob == [user_id |-> "bob", is_superuser |-> FALSE]
Admin == [user_id |-> "admin", is_superuser |-> TRUE]
Users == {Alice, Bob, Admin}
ConversationIds == {"c1"}

\* find_one returned None: no document under this conversation_id.
NoConversation ==
  [exists |-> FALSE, user_id |-> "alice", deleted |-> FALSE,
   deletion_reason |-> None, audio_path |-> FALSE,
   transcript_versions |-> <<>>, memory_versions |-> <<>>,
   active_transcript_version |-> None, active_memory_version |-> None]

\* create_conversation: no versions, no active pointers.
NewDocument ==
  [transcript_versions |-> <<>>, memory_versions |-> <<>>,
   active_transcript_version |-> None, active_memory_version |-> None,
   title |-> FALSE, end_reason |-> None, completed_at |-> FALSE]

\* What a job returned: the keys of the dict, and success and skipped.
NoResult ==
  [returned |-> FALSE, success |-> FALSE, skipped |-> FALSE, error |-> FALSE,
   conversation_id |-> FALSE]

Result(success, skipped, error, conversation_id) ==
  [returned |-> TRUE, success |-> success, skipped |-> skipped, error |-> error,
   conversation_id |-> conversation_id]

NoMemoryJob ==
  [pc |-> "idle", conversation_model |-> NewDocument, issued |-> {},
   primary_speakers |-> {}, speakers |-> {}, add_memory_called |-> FALSE,
   result |-> NoResult]

NoSearch ==
  [called |-> FALSE, limit |-> 0, embedding |-> "none", run |-> [raises |-> FALSE, records |-> <<>>],
   result |-> [outcome |-> "none", stage |-> "none", queried |-> FALSE,
               results |-> <<>>]]

NoSummaryJob ==
  [pc |-> "idle", conversation |-> NewDocument, runs |-> 0,
   result |-> NoResult]

Init ==
  /\ now = 0
  /\ sleeps = 0
  /\ wait_for_queue_drain \in BOOLEAN
  /\ utc_offset \in UtcOffsets
  /\ status = "active"
  /\ completion_reason = "none"
  /\ session_ttl = FALSE
  /\ stream = <<>>
  /\ conv_current = 0
  /\ audio_file = {}
  /\ count_key = [val |-> 0, exp |-> NoTime]
  /\ convs = <<>>
  /\ f_queue = <<0>>
  /\ f_running = {}
  /\ speech_jobs = [i \in FIds |-> IF i = 0 THEN [exists |-> TRUE, conversation_id |-> 0]
                                   ELSE NoSpeechJob]
  /\ g = [k \in GIds |-> NoController]
  /\ g_records = {}
  /\ chain = {}
  /\ hist = [speech_qualified |-> FALSE, disconnected_open |-> {},
             stopped_open |-> {}, over_runtime |-> {}, f_enqueued |-> {0}]
  /\ doc = NewDocument
  /\ jobs = [j \in ChainJobs |-> "none"]
  /\ reprocess_count = 0
  /\ mem = NoMemoryJob
  /\ summary_job = NoSummaryJob
  /\ end_write = [pc |-> "idle", conversation |-> NewDocument]
  /\ analysis = [called |-> FALSE, text |-> 0, words |-> <<>>,
                 result |-> AnalyzeSpeech(0, <<>>)]
  /\ search = NoSearch
  /\ db = [c \in ConversationIds |-> NoConversation]
  /\ disk = {}
  /\ rq = {}
  /\ response = [op |-> "none", conversation_id |-> "c1", user |-> Alice, status |-> 0,
                 transcript_version_id |-> None]

(***************************************************************************)
(* The session's other components: connection handler, live transcription  *)
(* worker, audio persistence worker, job scheduler, speech detection.      *)
(***************************************************************************)

Running(k) == g[k].pc \notin {"none", "queued", "done", "crashed"}
InLoop(k) == g[k].pc = "loop"

\* audio-stop or peer disconnect: active -> finalizing, once (compare-and-set).
HandlerStop(reason) ==
  /\ status = "active"
  /\ status' = "finalizing"
  /\ completion_reason' = reason
  /\ hist' = [hist EXCEPT
       !.disconnected_open = IF reason = "websocket_disconnect"
                             THEN {k \in GIds : InLoop(k)} ELSE @,
       !.stopped_open = IF reason = "user_stopped"
                        THEN {k \in GIds : InLoop(k)} ELSE @]
  /\ UNCHANGED store_vars
  /\ UNCHANGED api_vars
  /\ UNCHANGED speech_vars
  /\ UNCHANGED search_vars
  /\ UNCHANGED <<now, sleeps, wait_for_queue_drain, utc_offset, session_ttl, stream,
                 conv_current, audio_file, count_key, convs, f_queue, f_running,
                 speech_jobs, g, g_records, chain>>

HandlerComplete ==
  /\ status = "finalizing"
  /\ status' = "complete"
  /\ UNCHANGED store_vars
  /\ UNCHANGED api_vars
  /\ UNCHANGED speech_vars
  /\ UNCHANGED search_vars
  /\ UNCHANGED <<now, sleeps, wait_for_queue_drain, utc_offset, completion_reason, session_ttl,
                 stream, conv_current, audio_file, count_key, convs, f_queue,
                 f_running, speech_jobs, g, g_records, chain, hist>>

\* The threshold of meaningful speech as the specification words it.
QualifyingSpeech(s) ==
  LET valid == SelectSeq(s, IsValidWord)
  IN /\ Len(valid) >= MinWords
     /\ Len(valid) > 0
     /\ valid[Len(valid)].end - valid[1].start >= MinDuration

\* The live transcription worker appends one final result: one more word.
AppendResult(confidence) ==
  /\ status # "complete"
  /\ Len(stream) < MaxWords
  /\ stream' = Append(stream, [confidence |-> confidence,
                               start |-> Len(stream) * WordSecs,
                               end |-> (Len(stream) + 1) * WordSecs])
  /\ hist' = [hist EXCEPT !.speech_qualified = @ \/ QualifyingSpeech(stream')]
  /\ UNCHANGED store_vars
  /\ UNCHANGED api_vars
  /\ UNCHANGED speech_vars
  /\ UNCHANGED search_vars
  /\ UNCHANGED <<now, sleeps, wait_for_queue_drain, utc_offset, status, completion_reason,
                 session_ttl, conv_current, audio_file, count_key, convs, f_queue,
                 f_running, speech_jobs, g, g_records, chain>>

\* The persistence worker has rotated to the file of the conversation that
\* conversation:current names and, at a moment of its own, publishes
\* audio:file:{c} for it.
PersistPublish ==
  /\ conv_current # 0
  /\ conv_current \notin audio_file
  /\ audio_file' = audio_file \cup {conv_current}
  /\ UNCHANGED store_vars
  /\ UNCHANGED api_vars
  /\ UNCHANGED speech_vars
  /\ UNCHANGED search_vars
  /\ UNCHANGED <<now, sleeps, wait_for_queue_drain, utc_offset, status, completion_reason,
                 session_ttl, stream, conv_current, count_key, convs, f_queue,
                 f_running, speech_jobs, g, g_records, chain, hist>>

\* The scheduler drops the record of a finished speech-detection job (result
\* expiry, or cancellation by the connection handler) before the controller
\* it launched has read it.
PurgeSpeechJob(id) ==
  /\ speech_jobs[id].exists
  /\ \E k \in GIds : g[k].speech_job_id = id /\ g[k].pc \in {"queued", "cascade"}
  /\ id \notin f_running
  /\ \A i \in 1..Len(f_queue) : f_queue[i] # id
  /\ speech_jobs' = [speech_jobs EXCEPT ![id] = NoSpeechJob]
  /\ UNCHANGED store_vars
  /\ UNCHANGED api_vars
  /\ UNCHANGED speech_vars
  /\ UNCHANGED search_vars
  /\ UNCHANGED <<now, sleeps, wait_for_queue_drain, utc_offset, status, completion_reason,
                 session_ttl, stream, conv_current, audio_file, count_key, convs,
                 f_queue, f_running, g, g_records, chain, hist>>

\* The scheduler drops the record of a controller that is in its loop.
PurgeControllerJob(k) ==
  /\ InLoop(k)
  /\ k \in g_records
  /\ g_records' = g_records \ {k}
  /\ UNCHANGED store_vars
  /\ UNCHANGED api_vars
  /\ UNCHANGED speech_vars
  /\ UNCHANGED search_vars
  /\ UNCHANGED <<now, sleeps, wait_for_queue_drain, utc_offset, status, completion_reason,
                 session_ttl, stream, conv_current, audio_file, count_key, convs,
                 f_queue, f_running, speech_jobs, g, chain, hist>>

\* A worker takes the speech-detection job at the head of the queue.
SpeechDetectionStart ==
  /\ Len(f_queue) > 0
  /\ f_queue' = Tail(f_queue)
  /\ f_running' = f_running \cup {Head(f_queue)}
  /\ UNCHANGED store_vars
  /\ UNCHANGED api_vars
  /\ UNCHANGED speech_vars
  /\ UNCHANGED search_vars
  /\ UNCHANGED <<now, sleeps, wait_for_queue_drain, utc_offset, status, completion_reason,
                 session_ttl, stream, conv_current, audio_file, count_key, convs,
                 speech_jobs, g, g_records, chain, hist>>

\* stream_speech_detection_job, a poll that leaves WAITING: the session is
\* over, or the aggregate holds meaningful speech and the job launches
\* open_conversation_job with its own job id.  Either way the job exits.
FreeControllers == {k \in GIds : g[k].pc = "none"}

SpeechDetectionPoll(id) ==
  /\ id \in f_running
  /\ IF status \in {"finalizing", "complete"}
     THEN UNCHANGED <<g, g_records>>
     ELSE /\ IsMeaningfulSpeech(Combined(stream))
          /\ FreeControllers # {}
          /\ LET k == CHOOSE x \in FreeControllers : \A y \in FreeControllers : x <= y
             IN /\ g' = [g EXCEPT ![k] = [NoController EXCEPT
                                            !.pc = "queued", !.speech_job_id = id]]
                /\ g_records' = g_records \cup {k}
  /\ f_running' = f_running \ {id}
  /\ UNCHANGED store_vars
  /\ UNCHANGED api_vars
  /\ UNCHANGED speech_vars
  /\ UNCHANGED search_vars
  /\ UNCHANGED <<now, sleeps, wait_for_queue_drain, utc_offset, status, completion_reason,
                 session_ttl, stream, conv_current, audio_file, count_key, convs,
                 f_queue, speech_jobs, chain, hist>>

(***************************************************************************)
(* open_conversation_job (G)                                               *)
(***************************************************************************)

\* datetime.now(): the host's local time; now is datetime.utcnow().
LocalNow == now + utc_offset

NewConversation(t) ==
  [created_at |-> t, completed_at |-> NoTime, deleted |-> FALSE,
   deletion_reason |-> "none", deleted_at |-> NoTime, end_reason |-> "none",
   audio_path |-> FALSE]

\* A worker starts the job: it clears its meta, creates the conversation
\* document and inserts it.
ControllerStart(k) ==
  /\ g[k].pc = "queued"
  /\ convs' = Append(convs, NewConversation(LocalNow))
  /\ g' = [g EXCEPT ![k] = [@ EXCEPT !.pc = "cascade", !.cid = Len(convs) + 1]]
  /\ UNCHANGED store_vars
  /\ UNCHANGED api_vars
  /\ UNCHANGED speech_vars
  /\ UNCHANGED search_vars
  /\ UNCHANGED <<now, sleeps, wait_for_queue_drain, utc_offset, status, completion_reason,
                 session_ttl, stream, conv_current, audio_file, count_key,
                 f_queue, f_running, speech_jobs, g_records, chain, hist>>

\* Link job metadata to the conversation: its own meta, then the meta of the
\* speech-detection job that launched it.  Job.fetch raises when that job's
\* record is gone, and the job dies with the exception.
ControllerCascade(k) ==
  /\ g[k].pc = "cascade"
  /\ IF speech_jobs[g[k].speech_job_id].exists
     THEN /\ speech_jobs' = [speech_jobs EXCEPT
                               ![g[k].speech_job_id].conversation_id = g[k].cid]
          /\ g' = [g EXCEPT ![k] = [@ EXCEPT !.pc = "signal",
                                             !.meta_conversation_id = g[k].cid]]
     ELSE /\ g' = [g EXCEPT ![k] = [@ EXCEPT !.pc = "crashed",
                                             !.meta_conversation_id = g[k].cid]]
          /\ UNCHANGED speech_jobs
  /\ UNCHANGED store_vars
  /\ UNCHANGED api_vars
  /\ UNCHANGED speech_vars
  /\ UNCHANGED search_vars
  /\ UNCHANGED <<now, sleeps, wait_for_queue_drain, utc_offset, status, completion_reason,
                 session_ttl, stream, conv_current, audio_file, count_key, convs,
                 f_queue, f_running, g_records, chain, hist>>

\* Signal the persistence worker to rotate, then initialise the loop's locals.
ControllerSignal(k) ==
  /\ g[k].pc = "signal"
  /\ conv_current' = g[k].cid
  /\ g' = [g EXCEPT ![k] = [@ EXCEPT !.pc = "loop", !.start_time = now,
                                     !.last_meaningful_speech_time = now,
                                     !.last_word_count = 0,
                                     !.timeout_triggered = FALSE,
                                     !.finalize_received = FALSE]]
  /\ UNCHANGED store_vars
  /\ UNCHANGED api_vars
  /\ UNCHANGED speech_vars
  /\ UNCHANGED search_vars
  /\ UNCHANGED <<now, sleeps, wait_for_queue_drain, utc_offset, status, completion_reason,
                 session_ttl, stream, audio_file, count_key, convs, f_queue,
                 f_running, speech_jobs, g_records, chain, hist>>

\* One iteration of the loop.  d is how long the closing sleep lasts and
\* queue_length what LLEN of the persistence queue answers.
ControllerTick(k, d, queue_length) ==
  /\ g[k].pc = "loop"
  /\ LET combined == Combined(stream)
         speech_analysis == AnalyzeSpeech(combined.text, combined.words)
         track == TrackSpeechActivity(speech_analysis.word_count,
                                      g[k].last_word_count, now)
         last_speech == IF track.time # NoTime THEN track.time
                        ELSE g[k].last_meaningful_speech_time
         inactivity_duration == now - last_speech
         tracked == [g[k] EXCEPT !.last_meaningful_speech_time = last_speech,
                                 !.last_word_count = track.word_count,
                                 !.meta_conversation_id = g[k].cid]
         Sleep == /\ sleeps < MaxSleeps
                  /\ sleeps' = sleeps + 1
                  /\ now' = now + d
     IN IF k \notin g_records
        THEN \* zombie: the job's own record is gone
             /\ g' = [g EXCEPT ![k] = [@ EXCEPT !.pc = "post"]]
             /\ UNCHANGED <<now, sleeps>>
        ELSE IF status \in {"finalizing", "complete"}
        THEN /\ g' = [g EXCEPT ![k] = [@ EXCEPT !.pc = "post",
                                                !.finalize_received = TRUE]]
             /\ UNCHANGED <<now, sleeps>>
        ELSE IF RuntimeExceeded(now - g[k].start_time)
        THEN /\ g' = [g EXCEPT ![k] = [@ EXCEPT !.pc = "post"]]
             /\ UNCHANGED <<now, sleeps>>
        ELSE IF InactivityExceeded(inactivity_duration)
        THEN IF wait_for_queue_drain /\ queue_length > 0
             THEN /\ g' = [g EXCEPT ![k] = tracked]
                  /\ Sleep
             ELSE /\ g' = [g EXCEPT ![k] = [tracked EXCEPT
                                              !.pc = "post",
                                              !.timeout_triggered = TRUE,
                                              !.finalize_received = TRUE]]
                  /\ UNCHANGED <<now, sleeps>>
        ELSE /\ g' = [g EXCEPT ![k] = tracked]
             /\ Sleep
  /\ UNCHANGED store_vars
  /\ UNCHANGED api_vars
  /\ UNCHANGED speech_vars
  /\ UNCHANGED search_vars
  /\ UNCHANGED <<wait_for_queue_drain, utc_offset, status, completion_reason, session_ttl,
                 stream, conv_current, audio_file, count_key, convs, f_queue,
                 f_running, speech_jobs, g_records, chain, hist>>

\* After the loop: read completion_reason and settle the end reason; the wait
\* for the audio file starts.
ControllerEndReason(k) ==
  /\ g[k].pc = "post"
  /\ g' = [g EXCEPT ![k] = [@ EXCEPT
             !.pc = "wait",
             !.end_reason = DetermineEndReason(completion_reason,
                                               g[k].timeout_triggered,
                                               RuntimeExceeded(now - g[k].start_time)),
             !.wait_start = now]]
  /\ hist' = [hist EXCEPT !.over_runtime =
                 IF now - g[k].start_time > max_runtime THEN @ \cup {k} ELSE @]
  /\ UNCHANGED store_vars
  /\ UNCHANGED api_vars
  /\ UNCHANGED speech_vars
  /\ UNCHANGED search_vars
  /\ UNCHANGED <<now, sleeps, wait_for_queue_drain, utc_offset, status, completion_reason,
                 session_ttl, stream, conv_current, audio_file, count_key, convs,
                 f_queue, f_running, speech_jobs, g_records, chain>>

ControllerWaitFile_Blind(k, d) ==
  /\ g[k].pc = "wait"
  /\ g' = [g EXCEPT ![k] = [@ EXCEPT !.pc = "setpath", !.file_path = TRUE]]
  /\ UNCHANGED store_vars
  /\ UNCHANGED api_vars
  /\ UNCHANGED speech_vars
  /\ UNCHANGED search_vars
  /\ UNCHANGED <<now, sleeps, wait_for_queue_drain, utc_offset, status, completion_reason,
                 session_ttl, stream, conv_current, audio_file, count_key, convs,
                 f_queue, f_running, speech_jobs, g_records, chain, hist>>

\* wait_for_audio_file: one poll.  The key is there, or the poll sleeps, or
\* the wait has lasted AudioFileWait and gives up.
ControllerWaitFile(k, d) ==
  /\ g[k].pc = "wait"
  /\ IF now - g[k].wait_start < AudioFileWait
     THEN IF g[k].cid \in audio_file
          THEN /\ g' = [g EXCEPT ![k] = [@ EXCEPT !.pc = "setpath", !.file_path = TRUE]]
               /\ UNCHANGED <<now, sleeps>>
          ELSE /\ sleeps < MaxSleeps
               /\ sleeps' = sleeps + 1
               /\ now' = now + d
               /\ UNCHANGED g
     ELSE /\ g' = [g EXCEPT ![k] = [@ EXCEPT !.pc = "markdel", !.file_path = FALSE]]
          /\ UNCHANGED <<now, sleeps>>
  /\ UNCHANGED store_vars
  /\ UNCHANGED api_vars
  /\ UNCHANGED speech_vars
  /\ UNCHANGED search_vars
  /\ UNCHANGED <<wait_for_queue_drain, utc_offset, status, completion_reason, session_ttl,
                 stream, conv_current, audio_file, count_key, convs, f_queue,
                 f_running, speech_jobs, g_records, chain, hist>>

MarkConversationDeleted_NoTimestamp(c, deletion_reason) ==
  [convs EXCEPT ![c] = [@ EXCEPT !.deleted = TRUE,
                                 !.deletion_reason = deletion_reason]]

\* mark_conversation_deleted(conversation_id, "audio_file_not_ready")
MarkConversationDeleted(c, deletion_reason) ==
  [convs EXCEPT ![c] = [@ EXCEPT !.deleted = TRUE,
                                 !.deletion_reason = deletion_reason,
                                 !.deleted_at = now]]

ControllerMarkDeleted_Rearm(k) ==
  /\ g[k].pc = "markdel"
  /\ convs' = MarkConversationDeleted(g[k].cid, "audio_file_not_ready")
  /\ g' = [g EXCEPT ![k] = [@ EXCEPT !.pc = "cleanup"]]
  /\ IF status = "active"
     THEN /\ f_queue' = Append(f_queue, CountValue(now) + 1)
          /\ speech_jobs' = [speech_jobs EXCEPT ![CountValue(now) + 1] =
                               [exists |-> TRUE, conversation_id |-> 0]]
     ELSE UNCHANGED <<f_queue, speech_jobs>>
  /\ UNCHANGED store_vars
  /\ UNCHANGED api_vars
  /\ UNCHANGED speech_vars
  /\ UNCHANGED search_vars
  /\ UNCHANGED <<now, sleeps, wait_for_queue_drain, utc_offset, status, completion_reason,
                 session_ttl, stream, conv_current, audio_file, count_key,
                 f_running, g_records, chain, hist>>

ControllerMarkDeleted(k) ==
  /\ g[k].pc = "markdel"
  /\ convs' = MarkConversationDeleted(g[k].cid, "audio_file_not_ready")
  /\ g' = [g EXCEPT ![k] = [@ EXCEPT !.pc = "cleanup"]]
  /\ UNCHANGED store_vars
  /\ UNCHANGED api_vars
  /\ UNCHANGED speech_vars
  /\ UNCHANGED search_vars
  /\ UNCHANGED <<now, sleeps, wait_for_queue_drain, utc_offset, status, completion_reason,
                 session_ttl, stream, conv_current, audio_file, count_key,
                 f_queue, f_running, speech_jobs, g_records, chain, hist>>

\* The file is there: store its name on the conversation.
ControllerSetPath(k) ==
  /\ g[k].pc = "setpath"
  /\ convs' = [convs EXCEPT ![g[k].cid] = [@ EXCEPT !.audio_path = TRUE]]
  /\ g' = [g EXCEPT ![k] = [@ EXCEPT !.pc = "enqueue"]]
  /\ UNCHANGED store_vars
  /\ UNCHANGED api_vars
  /\ UNCHANGED speech_vars
  /\ UNCHANGED search_vars
  /\ UNCHANGED <<now, sleeps, wait_for_queue_drain, utc_offset, status, completion_reason,
                 session_ttl, stream, conv_current, audio_file, count_key,
                 f_queue, f_running, speech_jobs, g_records, chain, hist>>

\* start_post_conversation_jobs: the post-processing chain is enqueued.
ControllerEnqueueChain(k) ==
  /\ g[k].pc = "enqueue"
  /\ chain' = chain \cup {g[k].cid}
  /\ g' = [g EXCEPT ![k] = [@ EXCEPT !.pc = "cleanup"]]
  /\ UNCHANGED store_vars
  /\ UNCHANGED api_vars
  /\ UNCHANGED speech_vars
  /\ UNCHANGED search_vars
  /\ UNCHANGED <<now, sleeps, wait_for_queue_drain, utc_offset, status, completion_reason,
                 session_ttl, stream, conv_current, audio_file, count_key, convs,
                 f_queue, f_running, speech_jobs, g_records, hist>>

(***************************************************************************)
(* handle_end_of_conversation, called by the controller on both paths      *)
(***************************************************************************)

\* handle_end_of_conversation leaving the conversation:current signal in place.
EndCleanupKeys_KeepPointer(k) ==
  /\ g[k].pc = "cleanup"
  /\ stream' = <<>>
  /\ session_ttl' = TRUE
  /\ g' = [g EXCEPT ![k] = [@ EXCEPT !.pc = "persist"]]
  /\ UNCHANGED store_vars
  /\ UNCHANGED api_vars
  /\ UNCHANGED speech_vars
  /\ UNCHANGED search_vars
  /\ UNCHANGED <<now, sleeps, wait_for_queue_drain, utc_offset, status, completion_reason,
                 conv_current,
                 audio_file, count_key, convs, f_queue, f_running, speech_jobs,
                 g_records, chain, hist>>

\* handle_end_of_conversation marking the session complete as it cleans up.
EndCleanupKeys_Finalize(k) ==
  /\ g[k].pc = "cleanup"
  /\ stream' = <<>>
  /\ session_ttl' = TRUE
  /\ conv_current' = 0
  /\ status' = "complete"
  /\ g' = [g EXCEPT ![k] = [@ EXCEPT !.pc = "persist"]]
  /\ UNCHANGED store_vars
  /\ UNCHANGED api_vars
  /\ UNCHANGED speech_vars
  /\ UNCHANGED search_vars
  /\ UNCHANGED <<now, sleeps, wait_for_queue_drain, utc_offset, completion_reason,
                 audio_file, count_key, convs, f_queue, f_running, speech_jobs,
                 g_records, chain, hist>>

EndCleanupKeys_Rearm(k) ==
  /\ g[k].pc = "cleanup"
  /\ stream' = <<>>
  /\ session_ttl' = TRUE
  /\ conv_current' = 0
  /\ g' = [g EXCEPT ![k] = [@ EXCEPT !.pc = "persist"]]
  /\ IF status = "active"
     THEN /\ f_queue' = Append(f_queue, CountValue(now) + 1)
          /\ speech_jobs' = [speech_jobs EXCEPT ![CountValue(now) + 1] =
                               [exists |-> TRUE, conversation_id |-> 0]]
     ELSE UNCHANGED <<f_queue, speech_jobs>>
  /\ UNCHANGED store_vars
  /\ UNCHANGED api_vars
  /\ UNCHANGED speech_vars
  /\ UNCHANGED search_vars
  /\ UNCHANGED <<now, sleeps, wait_for_queue_drain, utc_offset, status, completion_reason,
                 audio_file, count_key, convs, f_running, g_records, chain, hist>>

\* Delete the results stream, put an expiry on the session key, delete the
\* conversation:current signal.
EndCleanupKeys(k) ==
  /\ g[k].pc = "cleanup"
  /\ stream' = <<>>
  /\ session_ttl' = TRUE
  /\ conv_current' = 0
  /\ g' = [g EXCEPT ![k] = [@ EXCEPT !.pc = "persist"]]
  /\ UNCHANGED store_vars
  /\ UNCHANGED api_vars
  /\ UNCHANGED speech_vars
  /\ UNCHANGED search_vars
  /\ UNCHANGED <<now, sleeps, wait_for_queue_drain, utc_offset, status, completion_reason,
                 audio_file, count_key, convs, f_queue, f_running, speech_jobs,
                 g_records, chain, hist>>

\* Store end_reason and completed_at on the conversation.
EndPersist(k) ==
  /\ g[k].pc = "persist"
  /\ convs' = [convs EXCEPT ![g[k].cid] = [@ EXCEPT !.end_reason = g[k].end_reason,
                                                    !.completed_at = now]]
  /\ g' = [g EXCEPT ![k] = [@ EXCEPT !.pc = "count"]]
  /\ UNCHANGED store_vars
  /\ UNCHANGED api_vars
  /\ UNCHANGED speech_vars
  /\ UNCHANGED search_vars
  /\ UNCHANGED <<now, sleeps, wait_for_queue_drain, utc_offset, status, completion_reason,
                 session_ttl, stream, conv_current, audio_file, count_key,
                 f_queue, f_running, speech_jobs, g_records, chain, hist>>

\* Increment the session's conversation count and renew the key's expiry.
EndCount(k) ==
  /\ g[k].pc = "count"
  /\ count_key' = IncrAndExpire(now)
  /\ g' = [g EXCEPT ![k] = [@ EXCEPT !.pc = "restart",
                                     !.conversation_count = count_key'.val]]
  /\ UNCHANGED store_vars
  /\ UNCHANGED api_vars
  /\ UNCHANGED speech_vars
  /\ UNCHANGED search_vars
  /\ UNCHANGED <<now, sleeps, wait_for_queue_drain, utc_offset, status, completion_reason,
                 session_ttl, stream, conv_current, audio_file, convs, f_queue,
                 f_running, speech_jobs, g_records, chain, hist>>

\* The job has returned: its locals are gone, its result stays.
Returned(job) ==
  [job EXCEPT !.pc = "done", !.start_time = 0, !.last_meaningful_speech_time = 0,
              !.last_word_count = 0, !.wait_start = 0]

\* Read the session status; when it is active enqueue a new speech-detection
\* job, named after the conversation count.  Then return.
EndRestart(k) ==
  /\ g[k].pc = "restart"
  /\ IF status = "active"
     THEN /\ f_queue' = Append(f_queue, g[k].conversation_count)
          /\ speech_jobs' = [speech_jobs EXCEPT ![g[k].conversation_count] =
                               [exists |-> TRUE, conversation_id |-> 0]]
          /\ hist' = [hist EXCEPT !.f_enqueued = @ \cup {g[k].conversation_count}]
     ELSE UNCHANGED <<f_queue, speech_jobs, hist>>
  /\ g' = [g EXCEPT ![k] = Returned(g[k])]
  /\ UNCHANGED store_vars
  /\ UNCHANGED api_vars
  /\ UNCHANGED speech_vars
  /\ UNCHANGED search_vars
  /\ UNCHANGED <<now, sleeps, wait_for_queue_drain, utc_offset, status, completion_reason,
                 session_ttl, stream, conv_current, audio_file, count_key, convs,
                 f_running, g_records, chain>>

(***************************************************************************)
(* The specification                                                       *)
(***************************************************************************)

Next ==
  \/ \E reason \in {"user_stopped", "websocket_disconnect"} : HandlerStop(reason)
  \/ HandlerComplete
  \/ \E confidence \in {LowConfidence, HighConfidence} : AppendResult(confidence)
  \/ PersistPublish
  \/ \E id \in FIds : PurgeSpeechJob(id)
  \/ \E k \in GIds : PurgeControllerJob(k)
  \/ SpeechDetectionStart
  \/ \E id \in FIds : SpeechDetectionPoll(id)
  \/ \E k \in GIds : ControllerStart(k)
  \/ \E k \in GIds : ControllerCascade(k)
  \/ \E k \in GIds : ControllerSignal(k)
  \/ \E k \in GIds, d \in Delays, queue_length \in 0..1 :
        ControllerTick(k, d, queue_length)
  \/ \E k \in GIds : ControllerEndReason(k)
  \/ \E k \in GIds, d \in Delays : ControllerWaitFile(k, d)
  \/ \E k \in GIds : ControllerMarkDeleted(k)
  \/ \E k \in GIds : ControllerSetPath(k)
  \/ \E k \in GIds : ControllerEnqueueChain(k)
  \/ \E k \in GIds : EndCleanupKeys(k)
  \/ \E k \in GIds : EndPersist(k)
  \/ \E k \in GIds : EndCount(k)
  \/ \E k \in GIds : EndRestart(k)

Spec == Init /\ [][Next]_vars

(***************************************************************************)
(* The conversation store: the versions of one conversation document, the  *)
(* endpoints that activate a version, the reprocessing chain T -> S -> X   *)
(* -> M and process_memory_job.  A document is read whole (find_one) and   *)
(* written whole (save).                                                   *)
(***************************************************************************)

\* Conversation.add_transcript_version; transcript is the text's length.
AddTranscriptVersion(self, version_id, transcript, set_as_active) ==
  [self EXCEPT
     !.transcript_versions = Append(@, [version_id |-> version_id,
                                        transcript |-> transcript]),
     !.active_transcript_version = IF set_as_active THEN version_id ELSE @]

\* Conversation.add_memory_version
AddMemoryVersion(self, version_id, transcript_version_id, set_as_active) ==
  [self EXCEPT
     !.memory_versions = Append(@, [version_id |-> version_id,
                                    transcript_version_id |-> transcript_version_id]),
     !.active_memory_version = IF set_as_active THEN version_id ELSE @]

HasVersion(versions, version_id) ==
  \E i \in 1..Len(versions) : versions[i].version_id = version_id

\* Conversation.set_active_transcript_version: only an existing version.
SetActiveTranscriptVersion(self, version_id) ==
  IF HasVersion(self.transcript_versions, version_id)
  THEN [self EXCEPT !.active_transcript_version = version_id]
  ELSE self

\* Conversation.set_active_memory_version: only an existing version.
SetActiveMemoryVersion(self, version_id) ==
  IF HasVersion(self.memory_versions, version_id)
  THEN [self EXCEPT !.active_memory_version = version_id]
  ELSE self

\* Conversation.transcript: the text of the first version that carries the
\* active id, nothing (length 0) when there is none.
ActiveTranscriptText(self) ==
  IF /\ self.active_transcript_version # None
     /\ HasVersion(self.transcript_versions, self.active_transcript_version)
  THEN LET i == CHOOSE n \in 1..Len(self.transcript_versions) :
                  /\ self.transcript_versions[n].version_id = self.active_transcript_version
                  /\ \A m \in 1..(n - 1) :
                       self.transcript_versions[m].version_id # self.active_transcript_version
       IN self.transcript_versions[i].transcript
  ELSE 0

\* A caller of add_transcript_version stores a transcript under the version
\* id it was given, and saves.
SaveTranscriptVersion(version_id, transcript, set_as_active) ==
  /\ Len(doc.transcript_versions) < MaxVersions
  /\ doc' = AddTranscriptVersion(doc, version_id, transcript, set_as_active)
  /\ UNCHANGED <<jobs, reprocess_count, mem>>
  /\ UNCHANGED summary_job
  /\ UNCHANGED end_write
  /\ UNCHANGED session_vars
  /\ UNCHANGED api_vars
  /\ UNCHANGED speech_vars
  /\ UNCHANGED search_vars

\* activate_transcript_version: find_one, set_active_transcript_version, save.
ActivateTranscriptVersion(version_id) ==
  /\ HasVersion(doc.transcript_versions, version_id)
  /\ doc' = SetActiveTranscriptVersion(doc, version_id)
  /\ doc' # doc
  /\ UNCHANGED <<jobs, reprocess_count, mem>>
  /\ UNCHANGED summary_job
  /\ UNCHANGED end_write
  /\ UNCHANGED session_vars
  /\ UNCHANGED api_vars
  /\ UNCHANGED speech_vars
  /\ UNCHANGED search_vars

\* activate_memory_version: find_one, set_active_memory_version, save.
ActivateMemoryVersion(version_id) ==
  /\ HasVersion(doc.memory_versions, version_id)
  /\ doc' = SetActiveMemoryVersion(doc, version_id)
  /\ doc' # doc
  /\ UNCHANGED <<jobs, reprocess_count, mem>>
  /\ UNCHANGED summary_job
  /\ UNCHANGED end_write
  /\ UNCHANGED session_vars
  /\ UNCHANGED api_vars
  /\ UNCHANGED speech_vars
  /\ UNCHANGED search_vars

\* The job a chain job waits for (depends_on).
DependsOn(j) == CASE j = "S" -> "T" [] j = "X" -> "S" [] j = "M" -> "X"

Pending(j) ==
  \/ jobs[j] \in {"queued", "started"}
  \/ jobs[j] = "deferred" /\ \A u \in ChainJobs : jobs[u] # "failed"

\* U is scheduled once per chain, next to M, when X has succeeded.
TitleSummaryRunnable ==
  /\ jobs["X"] = "finished"
  /\ summary_job.runs < reprocess_count

\* U of the present chain is still to run or is running.
TitleSummaryPending ==
  \/ summary_job.pc # "idle"
  \/ TitleSummaryRunnable

\* reprocess_transcript without depends_on on the speaker job.
ReprocessTranscript_NoDependsOn ==
  /\ reprocess_count < MaxReprocess
  /\ \A j \in ChainJobs : ~Pending(j)
  /\ ~TitleSummaryPending
  /\ jobs' = [j \in ChainJobs |-> IF j \in {"T", "S"} THEN "queued" ELSE "deferred"]
  /\ reprocess_count' = reprocess_count + 1
  /\ UNCHANGED <<doc, mem>>
  /\ UNCHANGED summary_job
  /\ UNCHANGED end_write
  /\ UNCHANGED session_vars
  /\ UNCHANGED api_vars
  /\ UNCHANGED speech_vars
  /\ UNCHANGED search_vars

\* reprocess_transcript: enqueue T, then S depending on T, X depending on S
\* and M depending on X.  A request is taken when no job of an earlier
\* request is still to run.
ReprocessTranscript ==
  /\ reprocess_count < MaxReprocess
  /\ \A j \in ChainJobs : ~Pending(j)
  /\ ~TitleSummaryPending
  /\ jobs' = [j \in ChainJobs |-> IF j = "T" THEN "queued" ELSE "deferred"]
  /\ reprocess_count' = reprocess_count + 1
  /\ UNCHANGED <<doc, mem>>
  /\ UNCHANGED summary_job
  /\ UNCHANGED end_write
  /\ UNCHANGED session_vars
  /\ UNCHANGED api_vars
  /\ UNCHANGED speech_vars
  /\ UNCHANGED search_vars

\* The scheduler makes a deferred job runnable when the job it depends on
\* has succeeded.
SchedulerRelease(j) ==
  /\ j # "T"
  /\ jobs[j] = "deferred"
  /\ jobs[DependsOn(j)] = "finished"
  /\ jobs' = [jobs EXCEPT ![j] = "queued"]
  /\ UNCHANGED <<doc, reprocess_count, mem>>
  /\ UNCHANGED summary_job
  /\ UNCHANGED end_write
  /\ UNCHANGED session_vars
  /\ UNCHANGED api_vars
  /\ UNCHANGED speech_vars
  /\ UNCHANGED search_vars

\* A worker takes a queued job.
WorkerStart(j) ==
  /\ jobs[j] = "queued"
  /\ jobs' = [jobs EXCEPT ![j] = "started"]
  /\ UNCHANGED <<doc, reprocess_count, mem>>
  /\ UNCHANGED summary_job
  /\ UNCHANGED end_write
  /\ UNCHANGED session_vars
  /\ UNCHANGED api_vars
  /\ UNCHANGED speech_vars
  /\ UNCHANGED search_vars

\* version_id = str(uuid.uuid4()): a new id for every request.
ReprocessVersionId == IF reprocess_count = 1 THEN "t1" ELSE "t2"

\* T returns: it has appended its transcript under the version id of the
\* request and made it the active one.
TranscribeSucceed(transcript) ==
  /\ jobs["T"] = "started"
  /\ doc' = AddTranscriptVersion(doc, ReprocessVersionId, transcript, TRUE)
  /\ jobs' = [jobs EXCEPT !["T"] = "finished"]
  /\ UNCHANGED <<reprocess_count, mem>>
  /\ UNCHANGED summary_job
  /\ UNCHANGED end_write
  /\ UNCHANGED session_vars
  /\ UNCHANGED api_vars
  /\ UNCHANGED speech_vars
  /\ UNCHANGED search_vars

\* S or X returns.
JobSucceed(j) ==
  /\ j \in {"S", "X"}
  /\ jobs[j] = "started"
  /\ jobs' = [jobs EXCEPT ![j] = "finished"]
  /\ UNCHANGED <<doc, reprocess_count, mem>>
  /\ UNCHANGED summary_job
  /\ UNCHANGED end_write
  /\ UNCHANGED session_vars
  /\ UNCHANGED api_vars
  /\ UNCHANGED speech_vars
  /\ UNCHANGED search_vars

\* T, S or X raises.
JobFail(j) ==
  /\ j # "M"
  /\ jobs[j] = "started"
  /\ jobs' = [jobs EXCEPT ![j] = "failed"]
  /\ UNCHANGED <<doc, reprocess_count, mem>>
  /\ UNCHANGED summary_job
  /\ UNCHANGED end_write
  /\ UNCHANGED session_vars
  /\ UNCHANGED api_vars
  /\ UNCHANGED speech_vars
  /\ UNCHANGED search_vars

\* process_memory_job, first part: find_one and the text of the active
\* transcript; a text shorter than 10 characters ends the job.
ProcessMemoryJobRead ==
  /\ jobs["M"] = "started"
  /\ mem.pc = "idle"
  /\ IF ActiveTranscriptText(doc) < MinChars
     THEN /\ jobs' = [jobs EXCEPT !["M"] = "finished"]
          /\ mem' = [mem EXCEPT !.result = Result(FALSE, FALSE, TRUE, FALSE),
                                !.primary_speakers = {}, !.speakers = {},
                                !.add_memory_called = FALSE]
     ELSE /\ mem' = [mem EXCEPT !.pc = "text", !.result = NoResult,
                                !.primary_speakers = {}, !.speakers = {},
                                !.add_memory_called = FALSE]
          /\ UNCHANGED jobs
  /\ UNCHANGED <<doc, reprocess_count>>
  /\ UNCHANGED summary_job
  /\ UNCHANGED end_write
  /\ UNCHANGED session_vars
  /\ UNCHANGED api_vars
  /\ UNCHANGED speech_vars
  /\ UNCHANGED search_vars

\* The primary speakers a user has configured, and the speakers of the
\* segments of a transcript.
PrimarySpeakers == {{}, {"alice"}}

SegmentSpeakers == {{"alice"}, {"bob"}}

\* The cases of the filter: no list configured, a primary speaker among the
\* speakers, none among them.
SpeakerCases ==
  {<<{}, {"alice"}>>, <<{"alice"}, {"alice"}>>, <<{"alice"}, {"bob"}>>}

\* getattr(segment, "identified_as", None): SpeakerSegment has the fields
\* start, end, text, speaker and confidence, and no identified_as.
IdentifiedAs(segment_speaker) == None

\* The names the filter collects from the segments of the active transcript.
TranscriptSpeakers(speakers) ==
  {IdentifiedAs(sp) : sp \in speakers} \ {None, "Unknown"}

\* if user and user.primary_speakers: ... if transcript_speakers and not
\* transcript_speakers.intersection(primary_speaker_names): skip
SkipForPrimarySpeakers(primary_speakers, speakers) ==
  /\ primary_speakers # {}
  /\ TranscriptSpeakers(speakers) # {}
  /\ TranscriptSpeakers(speakers) \cap primary_speakers = {}

\* process_memory_job, second part: the primary-speaker filter, over the
\* user's primary_speakers and the speakers of the segments, and then
\* memory_service.add_memory, which creates memories, creates none, returns
\* nothing, or raises.
ProcessMemoryJobExtract(primary_speakers, speakers, outcome) ==
  /\ jobs["M"] = "started"
  /\ mem.pc = "text"
  /\ LET skipped == [mem EXCEPT !.primary_speakers = primary_speakers,
                                !.speakers = speakers]
         seen == [skipped EXCEPT !.add_memory_called = TRUE]
     IN IF SkipForPrimarySpeakers(primary_speakers, speakers)
        THEN /\ mem' = [skipped EXCEPT !.pc = "idle",
                                    !.result = Result(TRUE, TRUE, FALSE, FALSE)]
             /\ jobs' = [jobs EXCEPT !["M"] = "finished"]
        ELSE CASE outcome = "created" ->
                    /\ mem' = [seen EXCEPT !.pc = "created"]
                    /\ UNCHANGED jobs
               [] outcome = "no_memories" ->
                    /\ mem' = [seen EXCEPT !.pc = "idle",
                                           !.result = Result(TRUE, TRUE, FALSE, FALSE)]
                    /\ jobs' = [jobs EXCEPT !["M"] = "finished"]
               [] outcome = "no_result" ->
                    /\ mem' = [seen EXCEPT !.pc = "idle",
                                           !.result = Result(FALSE, FALSE, TRUE, FALSE)]
                    /\ jobs' = [jobs EXCEPT !["M"] = "finished"]
               [] outcome = "raised" ->
                    /\ mem' = [seen EXCEPT !.pc = "idle"]
                    /\ jobs' = [jobs EXCEPT !["M"] = "failed"]
  /\ UNCHANGED <<doc, reprocess_count>>
  /\ UNCHANGED summary_job
  /\ UNCHANGED end_write
  /\ UNCHANGED session_vars
  /\ UNCHANGED api_vars
  /\ UNCHANGED speech_vars
  /\ UNCHANGED search_vars

\* process_memory_job, third part: the second find_one.
ProcessMemoryJobLoad ==
  /\ jobs["M"] = "started"
  /\ mem.pc = "created"
  /\ mem' = [mem EXCEPT !.pc = "loaded", !.conversation_model = doc,
                        !.primary_speakers = {}, !.speakers = {}]
  /\ UNCHANGED <<doc, jobs, reprocess_count>>
  /\ UNCHANGED summary_job
  /\ UNCHANGED end_write
  /\ UNCHANGED session_vars
  /\ UNCHANGED api_vars
  /\ UNCHANGED speech_vars
  /\ UNCHANGED search_vars

\* transcript_version_id = "unknown" whatever the document says.
MemoryTranscriptVersionId_Unknown(conversation_model) == "unknown"

\* transcript_version_id = conversation_model.active_transcript_version or "unknown"
MemoryTranscriptVersionId(conversation_model) ==
  IF conversation_model.active_transcript_version # None
  THEN conversation_model.active_transcript_version
  ELSE "unknown"

\* process_memory_job, last part: add_memory_version under a new uuid4 on the
\* loaded document, and save.
ProcessMemoryJobSave(version_id) ==
  /\ jobs["M"] = "started"
  /\ mem.pc = "loaded"
  /\ version_id \notin mem.issued
  /\ doc' = AddMemoryVersion(mem.conversation_model, version_id,
                             MemoryTranscriptVersionId(mem.conversation_model),
                             TRUE)
  /\ mem' = [mem EXCEPT !.pc = "idle", !.conversation_model = NewDocument,
                        !.issued = @ \cup {version_id},
                        !.result = Result(TRUE, FALSE, FALSE, FALSE)]
  /\ jobs' = [jobs EXCEPT !["M"] = "finished"]
  /\ UNCHANGED reprocess_count
  /\ UNCHANGED summary_job
  /\ UNCHANGED end_write
  /\ UNCHANGED session_vars
  /\ UNCHANGED api_vars
  /\ UNCHANGED speech_vars
  /\ UNCHANGED search_vars

\* generate_title_summary_job, first part: find_one and the transcript of
\* the document; without transcript the job returns a failure.
TitleSummaryLoad ==
  /\ summary_job.pc = "idle"
  /\ TitleSummaryRunnable
  /\ IF ActiveTranscriptText(doc) = 0
     THEN summary_job' = [summary_job EXCEPT !.runs = @ + 1,
                                             !.result = Result(FALSE, FALSE, TRUE, TRUE)]
     ELSE summary_job' = [summary_job EXCEPT !.pc = "loaded", !.runs = @ + 1,
                                             !.conversation = doc,
                                             !.result = NoResult]
  /\ UNCHANGED <<doc, jobs, reprocess_count, mem>>
  /\ UNCHANGED end_write
  /\ UNCHANGED session_vars
  /\ UNCHANGED api_vars
  /\ UNCHANGED speech_vars
  /\ UNCHANGED search_vars

\* generate_title_summary_job, second part: the three LLM calls; title,
\* summary and detailed_summary are set on the loaded document, which is
\* saved.  When a call raises the job returns a failure and saves nothing.
TitleSummarySave(outcome) ==
  /\ summary_job.pc = "loaded"
  /\ IF outcome = "generated"
     THEN /\ doc' = [summary_job.conversation EXCEPT !.title = TRUE]
          /\ summary_job' = [summary_job EXCEPT !.pc = "idle",
                                                !.conversation = NewDocument,
                                                !.result = Result(TRUE, FALSE, FALSE, TRUE)]
     ELSE /\ UNCHANGED doc
          /\ summary_job' = [summary_job EXCEPT !.pc = "idle",
                                                !.conversation = NewDocument,
                                                !.result = Result(FALSE, FALSE, TRUE, TRUE)]
  /\ UNCHANGED <<jobs, reprocess_count, mem>>
  /\ UNCHANGED end_write
  /\ UNCHANGED session_vars
  /\ UNCHANGED api_vars
  /\ UNCHANGED speech_vars
  /\ UNCHANGED search_vars

NextStore ==
  \/ \E version_id \in TranscriptIds, transcript \in {ShortText, LongText},
        set_as_active \in BOOLEAN :
        SaveTranscriptVersion(version_id, transcript, set_as_active)
  \/ \E version_id \in TranscriptIds : ActivateTranscriptVersion(version_id)
  \/ \E version_id \in MemoryIds : ActivateMemoryVersion(version_id)
  \/ ReprocessTranscript
  \/ \E j \in ChainJobs : SchedulerRelease(j)
  \/ \E j \in ChainJobs : WorkerStart(j)
  \/ \E transcript \in {ShortText, LongText} : TranscribeSucceed(transcript)
  \/ \E j \in ChainJobs : JobSucceed(j)
  \/ \E j \in ChainJobs : JobFail(j)
  \/ ProcessMemoryJobRead
  \/ \E case \in SpeakerCases,
        outcome \in {"created", "no_memories", "no_result", "raised"} :
        ProcessMemoryJobExtract(case[1], case[2], outcome)
  \/ TitleSummaryLoad
  \/ \E outcome \in {"generated", "raised"} : TitleSummarySave(outcome)
  \/ ProcessMemoryJobLoad
  \/ \E version_id \in MemoryIds : ProcessMemoryJobSave(version_id)

\* The store reads no clock: one host clock is enough.
InitStore == Init /\ utc_offset = 0

SpecStore == InitStore /\ [][NextStore]_vars

(***************************************************************************)
(* The controller's closing write next to the chain it has enqueued        *)
(***************************************************************************)

\* handle_end_of_conversation, the write of end_reason and completed_at,
\* first part: find_one.  The chain has been enqueued before.
EndPersistFind ==
  /\ end_write.pc = "idle"
  /\ reprocess_count > 0
  /\ end_write' = [pc |-> "loaded", conversation |-> doc]
  /\ UNCHANGED <<doc, jobs, reprocess_count, mem>>
  /\ UNCHANGED summary_job
  /\ UNCHANGED session_vars
  /\ UNCHANGED api_vars
  /\ UNCHANGED speech_vars
  /\ UNCHANGED search_vars

\* Second part: end_reason and completed_at are set on the loaded document,
\* which is saved.
EndPersistSave(end_reason) ==
  /\ end_write.pc = "loaded"
  /\ doc' = [end_write.conversation EXCEPT !.end_reason = end_reason,
                                           !.completed_at = TRUE]
  /\ end_write' = [pc |-> "saved", conversation |-> NewDocument]
  /\ UNCHANGED <<jobs, reprocess_count, mem>>
  /\ UNCHANGED summary_job
  /\ UNCHANGED session_vars
  /\ UNCHANGED api_vars
  /\ UNCHANGED speech_vars
  /\ UNCHANGED search_vars

NextClose ==
  \/ ReprocessTranscript
  \/ \E j \in ChainJobs : SchedulerRelease(j)
  \/ \E j \in ChainJobs \ {"M"} : WorkerStart(j)
  \/ \E transcript \in {ShortText, LongText} : TranscribeSucceed(transcript)
  \/ \E j \in {"S", "X"} : JobSucceed(j)
  \/ \E j \in ChainJobs : JobFail(j)
  \/ \E version_id \in TranscriptIds : ActivateTranscriptVersion(version_id)
  \/ EndPersistFind
  \/ \E end_reason \in {"user_stopped", "inactivity_timeout"} :
        EndPersistSave(end_reason)

SpecClose == InitStore /\ [][NextClose]_vars

(***************************************************************************)
(* The HTTP surface on conversations: get, delete, reprocess, activate,    *)
(* version history and audio path, for a principal that may or may not own *)
(* the conversation, on conversations the pipeline has created, given an   *)
(* audio path or soft-deleted.                                             *)
(***************************************************************************)

\* open_conversation_job: create_conversation for the session's user, insert.
\* conversation_id is a new uuid4: no document and no job carries it.
InsertConversation(conversation_id, user_id) ==
  /\ ~db[conversation_id].exists
  /\ \A r \in rq : r.conversation_id # conversation_id
  /\ db' = [db EXCEPT ![conversation_id] =
              [NoConversation EXCEPT !.exists = TRUE, !.user_id = user_id]]
  /\ UNCHANGED <<disk, rq, response>>
  /\ UNCHANGED session_vars
  /\ UNCHANGED store_vars
  /\ UNCHANGED speech_vars
  /\ UNCHANGED search_vars

\* The audio persistence worker has written the conversation's WAV file.
WriteAudioFile(conversation_id) ==
  /\ db[conversation_id].exists
  /\ conversation_id \notin disk
  /\ disk' = disk \cup {conversation_id}
  /\ UNCHANGED <<db, rq, response>>
  /\ UNCHANGED session_vars
  /\ UNCHANGED store_vars
  /\ UNCHANGED speech_vars
  /\ UNCHANGED search_vars

\* open_conversation_job after wait_for_audio_file gave up:
\* mark_conversation_deleted(conversation_id, "audio_file_not_ready").
SoftDeleteConversation(conversation_id) ==
  /\ db[conversation_id].exists
  /\ ~db[conversation_id].deleted
  /\ ~db[conversation_id].audio_path
  /\ db' = [db EXCEPT ![conversation_id].deleted = TRUE,
                      ![conversation_id].deletion_reason = "audio_file_not_ready"]
  /\ UNCHANGED <<disk, rq, response>>
  /\ UNCHANGED session_vars
  /\ UNCHANGED store_vars
  /\ UNCHANGED speech_vars
  /\ UNCHANGED search_vars

\* open_conversation_job after wait_for_audio_file returned the path: the
\* file is on disk and audio_path is stored on the conversation.
SetAudioPath(conversation_id) ==
  /\ db[conversation_id].exists
  /\ ~db[conversation_id].deleted
  /\ ~db[conversation_id].audio_path
  /\ conversation_id \in disk
  /\ db' = [db EXCEPT ![conversation_id].audio_path = TRUE]
  /\ UNCHANGED <<disk, rq, response>>
  /\ UNCHANGED session_vars
  /\ UNCHANGED store_vars
  /\ UNCHANGED speech_vars
  /\ UNCHANGED search_vars

\* The transcription job of a conversation with an audio path stores its
\* transcript as version t1 and makes it active.
TranscribeConversation(conversation_id) ==
  /\ db[conversation_id].exists
  /\ db[conversation_id].audio_path
  /\ db[conversation_id].transcript_versions = <<>>
  /\ db' = [db EXCEPT ![conversation_id] = AddTranscriptVersion(@, "t1", LongText, TRUE)]
  /\ UNCHANGED <<disk, rq, response>>
  /\ UNCHANGED session_vars
  /\ UNCHANGED store_vars
  /\ UNCHANGED speech_vars
  /\ UNCHANGED search_vars

\* The ownership check left out: nobody is refused.
Forbidden_Nobody(conversation, user) == FALSE

\* if not user.is_superuser and conversation.user_id != str(user.user_id)
Forbidden(conversation, user) ==
  ~user.is_superuser /\ conversation.user_id # user.user_id

Respond(op, conversation_id, user, status_code) ==
  response' = [op |-> op, conversation_id |-> conversation_id, user |-> user,
               status |-> status_code, transcript_version_id |-> None]

\* A job of the queue: the function's name stands for the job id it is
\* enqueued under, version_id is the transcript version among its arguments,
\* depends_on the job it waits for.
Job(job, conversation_id, version_id, depends_on) ==
  [job |-> job, conversation_id |-> conversation_id, version_id |-> version_id,
   depends_on |-> depends_on]

\* enqueue(..., job_id=f"..._{conversation_id[:8]}"): the job is stored under
\* its id, in the place of a job stored under the same id before.
Enqueue(queue, job) ==
  {r \in queue : ~(r.job = job.job /\ r.conversation_id = job.conversation_id)}
    \cup {job}

\* version_id = str(uuid.uuid4()): an id no version and no job carries.
FreshTranscriptIds(conversation_id) ==
  {version_id \in TranscriptIds :
     /\ ~HasVersion(db[conversation_id].transcript_versions, version_id)
     /\ \A r \in rq : r.version_id # version_id}

\* A job starts when the job it depends on is no longer waiting or running.
Runnable(r) ==
  /\ r \in rq
  /\ \A d \in rq : ~(d.conversation_id = r.conversation_id /\ d.job = r.depends_on)

\* get_conversation
GetConversationStatus(conversation, user) ==
  IF ~conversation.exists THEN 404
  ELSE IF Forbidden(conversation, user) THEN 403
  ELSE 200

GetConversation(conversation_id, user) ==
  /\ Respond("get", conversation_id, user,
             GetConversationStatus(db[conversation_id], user))
  /\ UNCHANGED <<db, disk, rq>>
  /\ UNCHANGED session_vars
  /\ UNCHANGED store_vars
  /\ UNCHANGED speech_vars
  /\ UNCHANGED search_vars

\* get_conversation_version_history
GetConversationVersionHistory(conversation_id, user) ==
  /\ Respond("versions", conversation_id, user,
             GetConversationStatus(db[conversation_id], user))
  /\ UNCHANGED <<db, disk, rq>>
  /\ UNCHANGED session_vars
  /\ UNCHANGED store_vars
  /\ UNCHANGED speech_vars
  /\ UNCHANGED search_vars

\* delete_conversation: conversation.delete() removes the document; the audio
\* file is unlinked when audio_path is set and the file exists.
DeleteConversation(conversation_id, user) ==
  LET conversation == db[conversation_id]
      status_code == GetConversationStatus(conversation, user)
  IN /\ Respond("delete", conversation_id, user, status_code)
     /\ IF status_code = 200
        THEN /\ db' = [db EXCEPT ![conversation_id] = NoConversation]
             /\ disk' = IF conversation.audio_path THEN disk \ {conversation_id}
                        ELSE disk
        ELSE UNCHANGED <<db, disk>>
     /\ UNCHANGED rq
     /\ UNCHANGED session_vars
     /\ UNCHANGED store_vars
     /\ UNCHANGED speech_vars
     /\ UNCHANGED search_vars

\* reprocess_transcript without the check that audio_path is set.
ReprocessTranscriptStatus_NoAudioPathCheck(conversation, user, on_disk) ==
  IF ~conversation.exists THEN 404
  ELSE IF Forbidden(conversation, user) THEN 403
  ELSE IF ~on_disk THEN 422
  ELSE 200

\* reprocess_transcript: the checks before the chain is enqueued.
ReprocessTranscriptStatus(conversation, user, on_disk) ==
  IF ~conversation.exists THEN 404
  ELSE IF Forbidden(conversation, user) THEN 403
  ELSE IF ~conversation.audio_path THEN 400
  ELSE IF ~on_disk THEN 422
  ELSE 200

\* reprocess_transcript as an endpoint: the four jobs of the chain are
\* enqueued under ids made from the conversation id.
ReprocessTranscriptRequest(conversation_id, version_id, user) ==
  LET status_code == ReprocessTranscriptStatus(db[conversation_id], user,
                                          conversation_id \in disk)
      transcript_job == Job("reprocess", conversation_id, version_id, None)
      speaker_job == Job("speaker", conversation_id, version_id, "reprocess")
      cropping_job == Job("crop", conversation_id, None, "speaker")
      memory_job == Job("memory", conversation_id, None, "crop")
  IN /\ status_code = 200 => version_id \in FreshTranscriptIds(conversation_id)
     /\ Respond("reprocess_transcript", conversation_id, user, status_code)
     /\ rq' = IF status_code = 200
              THEN Enqueue(Enqueue(Enqueue(Enqueue(rq, transcript_job),
                                           speaker_job),
                                   cropping_job),
                           memory_job)
              ELSE rq
     /\ UNCHANGED <<db, disk>>
     /\ UNCHANGED session_vars
     /\ UNCHANGED store_vars
     /\ UNCHANGED speech_vars
     /\ UNCHANGED search_vars

\* reprocess_memory: "active" names the active transcript version; the
\* version asked for has to exist.
ReprocessMemoryStatus(conversation, transcript_version_id, user) ==
  IF ~conversation.exists THEN 404
  ELSE IF Forbidden(conversation, user) THEN 403
  ELSE IF transcript_version_id = "active" /\ conversation.active_transcript_version = None
       THEN 404
  ELSE IF ~HasVersion(conversation.transcript_versions,
                      IF transcript_version_id = "active"
                      THEN conversation.active_transcript_version
                      ELSE transcript_version_id)
       THEN 404
  ELSE 200

\* reprocess_memory: enqueue_memory_processing under the id memory_{id}; the
\* job gets the conversation's id, the answer names the transcript version.
ReprocessMemoryRequest(conversation_id, transcript_version_id, user) ==
  LET conversation == db[conversation_id]
      status_code == ReprocessMemoryStatus(conversation, transcript_version_id, user)
      resolved == IF transcript_version_id = "active"
                  THEN conversation.active_transcript_version
                  ELSE transcript_version_id
  IN /\ response' = [op |-> "reprocess_memory", conversation_id |-> conversation_id,
                     user |-> user, status |-> status_code,
                     transcript_version_id |-> IF status_code = 200 THEN resolved
                                               ELSE None]
     /\ rq' = IF status_code = 200
              THEN Enqueue(rq, Job("memory", conversation_id, None, None))
              ELSE rq
     /\ UNCHANGED <<db, disk>>
     /\ UNCHANGED session_vars
     /\ UNCHANGED store_vars
     /\ UNCHANGED speech_vars
     /\ UNCHANGED search_vars

\* activate_transcript_version: the checks before save.
ActivateTranscriptVersionStatus(conversation, version_id, user) ==
  IF ~conversation.exists THEN 404
  ELSE IF Forbidden(conversation, user) THEN 403
  ELSE IF ~HasVersion(conversation.transcript_versions, version_id) THEN 400
  ELSE 200

\* activate_transcript_version as an endpoint.
ActivateTranscriptVersionRequest(conversation_id, version_id, user) ==
  LET status_code == ActivateTranscriptVersionStatus(db[conversation_id], version_id, user)
  IN /\ Respond("activate_transcript", conversation_id, user, status_code)
     /\ db' = IF status_code = 200
              THEN [db EXCEPT ![conversation_id] = SetActiveTranscriptVersion(@, version_id)]
              ELSE db
     /\ UNCHANGED <<disk, rq>>
     /\ UNCHANGED session_vars
     /\ UNCHANGED store_vars
     /\ UNCHANGED speech_vars
     /\ UNCHANGED search_vars

\* activate_memory_version: the checks before save.
ActivateMemoryVersionStatus(conversation, version_id, user) ==
  IF ~conversation.exists THEN 404
  ELSE IF Forbidden(conversation, user) THEN 403
  ELSE IF ~HasVersion(conversation.memory_versions, version_id) THEN 400
  ELSE 200

\* activate_memory_version as an endpoint.
ActivateMemoryVersionRequest(conversation_id, version_id, user) ==
  LET status_code == ActivateMemoryVersionStatus(db[conversation_id], version_id, user)
  IN /\ Respond("activate_memory", conversation_id, user, status_code)
     /\ db' = IF status_code = 200
              THEN [db EXCEPT ![conversation_id] = SetActiveMemoryVersion(@, version_id)]
              ELSE db
     /\ UNCHANGED <<disk, rq>>
     /\ UNCHANGED session_vars
     /\ UNCHANGED store_vars
     /\ UNCHANGED speech_vars
     /\ UNCHANGED search_vars

\* get_conversation_audio_path and the route's mapping of its ValueError:
\* "not found" 404, "access denied" 403, anything else 404.
GetConversationAudioPathStatus(conversation, user, on_disk) ==
  IF ~conversation.exists THEN 404
  ELSE IF Forbidden(conversation, user) THEN 403
  ELSE IF ~conversation.audio_path THEN 404
  ELSE IF ~on_disk THEN 404
  ELSE 200

\* GET /audio/get_audio/{conversation_id}
GetConversationAudio(conversation_id, user) ==
  /\ Respond("audio", conversation_id, user,
             GetConversationAudioPathStatus(db[conversation_id], user,
                                            conversation_id \in disk))
  /\ UNCHANGED <<db, disk, rq>>
  /\ UNCHANGED session_vars
  /\ UNCHANGED store_vars
  /\ UNCHANGED speech_vars
  /\ UNCHANGED search_vars

\* transcribe_full_audio_job(conversation_id, ..., version_id, "reprocess"):
\* the transcript is stored as version version_id and made active.
RunTranscriptJob(conversation_id) ==
  \E r \in rq :
    /\ r.job = "reprocess" /\ r.conversation_id = conversation_id
    /\ Runnable(r)
    /\ rq' = rq \ {r}
    /\ db' = IF db[conversation_id].exists
             THEN [db EXCEPT ![conversation_id] =
                     AddTranscriptVersion(@, r.version_id, LongText, TRUE)]
             ELSE db
    /\ UNCHANGED <<disk, response>>
    /\ UNCHANGED session_vars
    /\ UNCHANGED store_vars
    /\ UNCHANGED speech_vars
    /\ UNCHANGED search_vars

\* recognise_speakers_job and process_cropping_job run to their end.
RunChainJob(conversation_id, j) ==
  \E r \in rq :
    /\ r.job = j /\ r.conversation_id = conversation_id
    /\ Runnable(r)
    /\ rq' = rq \ {r}
    /\ UNCHANGED <<db, disk, response>>
    /\ UNCHANGED session_vars
    /\ UNCHANGED store_vars
    /\ UNCHANGED speech_vars
    /\ UNCHANGED search_vars

\* process_memory_job(conversation_id, ...) with memories extracted from a
\* long enough text: the new memory version names the transcript version
\* that is active on the document the job loads.
RunMemoryJob(conversation_id, version_id) ==
  \E r \in rq :
    /\ r.job = "memory" /\ r.conversation_id = conversation_id
    /\ Runnable(r)
    /\ ~HasVersion(db[conversation_id].memory_versions, version_id)
    /\ rq' = rq \ {r}
    /\ db' = IF /\ db[conversation_id].exists
                /\ ActiveTranscriptText(db[conversation_id]) >= MinChars
             THEN [db EXCEPT ![conversation_id] =
                     AddMemoryVersion(@, version_id,
                                      MemoryTranscriptVersionId(@), TRUE)]
             ELSE db
    /\ UNCHANGED <<disk, response>>
    /\ UNCHANGED session_vars
    /\ UNCHANGED store_vars
    /\ UNCHANGED speech_vars
    /\ UNCHANGED search_vars

NextApi ==
  \/ \E conversation_id \in ConversationIds, user_id \in {"alice", "bob"} :
        InsertConversation(conversation_id, user_id)
  \/ \E conversation_id \in ConversationIds : WriteAudioFile(conversation_id)
  \/ \E conversation_id \in ConversationIds : SoftDeleteConversation(conversation_id)
  \/ \E conversation_id \in ConversationIds : SetAudioPath(conversation_id)
  \/ \E conversation_id \in ConversationIds : TranscribeConversation(conversation_id)
  \/ \E conversation_id \in ConversationIds, user \in Users :
        GetConversation(conversation_id, user)
  \/ \E conversation_id \in ConversationIds, user \in Users :
        GetConversationVersionHistory(conversation_id, user)
  \/ \E conversation_id \in ConversationIds, user \in Users :
        DeleteConversation(conversation_id, user)
  \/ \E conversation_id \in ConversationIds, version_id \in TranscriptIds,
        user \in Users :
        ReprocessTranscriptRequest(conversation_id, version_id, user)
  \/ \E conversation_id \in ConversationIds, user \in Users,
        transcript_version_id \in {"active", "t1"} :
        ReprocessMemoryRequest(conversation_id, transcript_version_id, user)
  \/ \E conversation_id \in ConversationIds, user \in Users :
        ActivateTranscriptVersionRequest(conversation_id, "t1", user)
  \/ \E conversation_id \in ConversationIds, user \in Users :
        ActivateMemoryVersionRequest(conversation_id, "m1", user)
  \/ \E conversation_id \in ConversationIds, user \in Users :
        GetConversationAudio(conversation_id, user)
  \/ \E conversation_id \in ConversationIds : RunTranscriptJob(conversation_id)
  \/ \E conversation_id \in ConversationIds, j \in {"speaker", "crop"} :
        RunChainJob(conversation_id, j)
  \/ \E conversation_id \in ConversationIds :
        RunMemoryJob(conversation_id, "m1")

SpecApi == Init /\ [][NextApi]_vars

(***************************************************************************)
(* analyze_speech on transcript data of any shape                          *)
(***************************************************************************)

\* The texts and the word-level data analyze_speech is called with: up to
\* MaxText words of text, up to MaxWords words with a confidence below, at
\* and above MinConfidence, and spans shorter than, equal to and longer than
\* MinDuration.
SpeechTexts == 0..MaxText

SpeechWords ==
  [confidence : {LowConfidence, MinConfidence, HighConfidence},
   start : {0, WordSecs}, end : {WordSecs, 3 * WordSecs}]

SpeechWordData ==
  UNION {[1..n -> SpeechWords] : n \in 0..MaxWords}

\* One call of analyze_speech(transcript_data).
AnalyzeSpeechCall(text, words) ==
  /\ analysis' = [called |-> TRUE, text |-> text, words |-> words,
                  result |-> AnalyzeSpeech(text, words)]
  /\ UNCHANGED session_vars
  /\ UNCHANGED store_vars
  /\ UNCHANGED api_vars
  /\ UNCHANGED search_vars

NextSpeech ==
  \E text \in SpeechTexts, words \in SpeechWordData : AnalyzeSpeechCall(text, words)

SpecSpeech == Init /\ [][NextSpeech]_vars

(***************************************************************************)
(* ObsidianService.search_obsidian                                         *)
(***************************************************************************)

\* What generate_openai_embeddings does for the query: it raises, returns no
\* vector, or returns one.
Embeddings == {"raises", "empty", "vector"}

\* The records the vector query yields: a note with or without tags and with
\* or without outgoing links.
SearchRecords == [tags : SUBSET {"tag"}, outgoing_links : SUBSET {"note"}]

\* What session.run and the iteration over its result do: up to limit
\* records are yielded, and the query goes through or raises on the way.
QueryOutcomes(limit) ==
  [raises : BOOLEAN, records : UNION {[1..n -> SearchRecords] : n \in 0..limit}]

\* The context entry made of a record: its lines.
ContextEntry(record) ==
  <<"SOURCE">>
  \o (IF record.tags # {} THEN <<"TAGS">> ELSE <<>>)
  \o (IF record.outgoing_links # {} THEN <<"RELATED NOTES">> ELSE <<>>)
  \o <<"CONTENT", "---">>

\* search_obsidian with every failure reported as a database failure.
SearchObsidian_OneStage(embedding, run) ==
  IF embedding = "raises" \/ run.raises
  THEN [outcome |-> "raised", stage |-> "database", queried |-> embedding # "raises",
        results |-> <<>>]
  ELSE IF embedding = "empty"
  THEN [outcome |-> "returned", stage |-> "none", queried |-> FALSE, results |-> <<>>]
  ELSE [outcome |-> "returned", stage |-> "none", queried |-> TRUE,
        results |-> [i \in 1..Len(run.records) |-> ContextEntry(run.records[i])]]

\* search_obsidian: the embedding of the query, then the vector query and
\* the entries made of its records.
SearchObsidian(embedding, run) ==
  IF embedding = "raises"
  THEN [outcome |-> "raised", stage |-> "embedding", queried |-> FALSE,
        results |-> <<>>]
  ELSE IF embedding = "empty"
  THEN [outcome |-> "returned", stage |-> "none", queried |-> FALSE, results |-> <<>>]
  ELSE IF run.raises
  THEN [outcome |-> "raised", stage |-> "database", queried |-> TRUE,
        results |-> <<>>]
  ELSE [outcome |-> "returned", stage |-> "none", queried |-> TRUE,
        results |-> [i \in 1..Len(run.records) |-> ContextEntry(run.records[i])]]

\* One call of search_obsidian(query, limit).
SearchObsidianCall(limit, embedding, run) ==
  /\ search' = [called |-> TRUE, limit |-> limit, embedding |-> embedding,
                run |-> run, result |-> SearchObsidian(embedding, run)]
  /\ UNCHANGED session_vars
  /\ UNCHANGED store_vars
  /\ UNCHANGED api_vars
  /\ UNCHANGED speech_vars

NextSearch ==
  \E limit \in 1..MaxLimit, embedding \in Embeddings :
    \E run \in QueryOutcomes(limit) : SearchObsidianCall(limit, embedding, run)

SpecSearch == Init /\ [][NextSearch]_vars

(***************************************************************************)
(* Properties                                                              *)
(***************************************************************************)

Active(k) == g[k].pc = "queued" \/ Running(k)
Done(k) == g[k].pc = "done"
FCount == Len(f_queue) + Cardinality(f_running)
Conversations == 1..Len(convs)
\* Controller k takes a loop iteration in this step.
TickTaken(k) == g[k].pc = "loop" /\ (g'[k] # g[k] \/ now' # now)
\* The time since the last new speech that the iteration compares.
InactivityAtTick(k) ==
  IF AnalyzeSpeech(Len(stream), stream).word_count > g[k].last_word_count
  THEN 0 ELSE now - g[k].last_meaningful_speech_time

\* Conversation c has ended: it is soft-deleted, or end_reason and
\* completed_at are stored on it.
Ended(c) ==
  \/ convs[c].deleted
  \/ convs[c].end_reason # "none" /\ convs[c].completed_at # NoTime

\* C1: at any time at most one conversation controller of the session is
\* queued or running, whatever the interleaving of speech-detection launches,
\* conversation closes and status changes.
C1_OneController == Cardinality({k \in GIds : Active(k)}) <= 1

C1_Witness ==
  \E k \in GIds : InLoop(k) /\ status = "active" /\ \E j \in GIds : j # k /\ Done(j)

\* C2: at any time at most one speech-detection job is queued or running, and
\* a new one is enqueued only by a controller in the step in which it returns,
\* when no speech-detection job and no other controller is left.
C2_OneSpeechDetection ==
  /\ [](FCount <= 1)
  /\ [][FCount' > FCount =>
          /\ FCount = 0
          /\ \E k \in GIds : /\ g[k].pc = "restart" /\ g'[k].pc = "done"
                             /\ \A j \in GIds : j # k => ~Active(j)]_vars

C2_Witness ==
  /\ FCount = 1
  /\ \E k \in GIds : Done(k)
  /\ f_queue = <<count_key.val>>

\* C3: once the session is complete and its jobs have stopped, every
\* conversation that was created has ended: end_reason and completed_at are
\* stored on it, or it is soft-deleted.
C3_CreatedEqualsEnded ==
  (status = "complete" /\ FCount = 0 /\ \A k \in GIds : ~Active(k))
    => \A c \in Conversations : Ended(c)

\* C4: when no controller is at work (and the counter key has not expired),
\* the conversation count equals the number of conversations that are not
\* deleted and have reached a terminal state.
C4_CountIsNonDeletedTerminal ==
  ((\A k \in GIds : ~Active(k)) /\ (count_key.exp = NoTime \/ now < count_key.exp))
    => CountValue(now) =
         Cardinality({c \in Conversations :
                        ~convs[c].deleted /\ convs[c].end_reason # "none"})

\* C5: each conversation close raises the conversation count by exactly one,
\* so the count a close returns is the number of closes so far.
C5_CountMonotonic ==
  [][\A k \in GIds :
       (g[k].pc = "count" /\ g'[k].pc = "restart")
         => g'[k].conversation_count =
              Cardinality({j \in GIds : g[j].pc \in {"restart", "done"}}) + 1]_vars

\* C6: as long as the meaningful-speech threshold has never been met in the
\* session, no conversation document exists and no controller was launched.
C6_NoSpeechNoConversation ==
  ~hist.speech_qualified => (convs = <<>> /\ \A k \in GIds : g[k].pc = "none")

C6_Witness ==
  /\ status = "complete"
  /\ ~hist.speech_qualified
  /\ Len(stream) = MaxWords
  /\ FCount = 0

\* C7 as stated: a conversation that was open when the session became
\* finalizing by websocket_disconnect ends with that end reason and its
\* post-processing chain is enqueued.
C7_DisconnectEndsAndChainRuns ==
  \A k \in GIds :
    (Done(k) /\ k \in hist.disconnected_open)
      => /\ convs[g[k].cid].end_reason = "websocket_disconnect"
         /\ g[k].cid \in chain

\* C7 amended: ... ends with that end reason; its chain is enqueued when
\* the audio file key was seen within the wait, and otherwise it is
\* soft-deleted as audio_file_not_ready with no chain.
C7_DisconnectEnds ==
  \A k \in GIds :
    (Done(k) /\ k \in hist.disconnected_open)
      => /\ convs[g[k].cid].end_reason = "websocket_disconnect"
         /\ g[k].file_path => (g[k].cid \in chain /\ ~convs[g[k].cid].deleted)
         /\ ~g[k].file_path =>
              /\ g[k].cid \notin chain
              /\ convs[g[k].cid].deleted
              /\ convs[g[k].cid].deletion_reason = "audio_file_not_ready"

C7_Witness ==
  \E k \in GIds : Done(k) /\ k \in hist.disconnected_open /\ g[k].cid \in chain

\* C8: a conversation that was open when the session became finalizing for
\* another reason than websocket_disconnect ends as user_stopped, and
\* user_stopped is stored only on conversations of a session that is
\* finalizing (or complete) for such a reason.
C8_UserStopped ==
  /\ \A k \in GIds :
       (Done(k) /\ k \in hist.stopped_open)
         => convs[g[k].cid].end_reason = "user_stopped"
  /\ \A c \in Conversations :
       convs[c].end_reason = "user_stopped"
         => /\ status \in {"finalizing", "complete"}
            /\ completion_reason # "websocket_disconnect"

\* C9 as stated: in an active session (outside test drain mode, job record
\* alive, runtime within max_runtime) an iteration that finds the time since
\* the last new speech at or above the threshold leaves the loop.
C9_TimeoutAtThreshold ==
  [][\A k \in GIds :
       (/\ TickTaken(k) /\ status = "active" /\ k \in g_records
        /\ ~wait_for_queue_drain
        /\ now - g[k].start_time <= max_runtime
        /\ InactivityAtTick(k) >= inactivity_timeout_seconds)
         => (g'[k].pc = "post" /\ g'[k].timeout_triggered)]_vars

\* C9 amended: ... strictly above the threshold leaves the loop, an
\* iteration that finds it at or below the threshold does not time out, and
\* a conversation closed by the timeout in a session that is still active
\* ends as inactivity_timeout.
C9_TimeoutAboveThreshold ==
  /\ [][\A k \in GIds :
          (/\ TickTaken(k) /\ status = "active" /\ k \in g_records
           /\ ~wait_for_queue_drain
           /\ now - g[k].start_time <= max_runtime
           /\ InactivityAtTick(k) > inactivity_timeout_seconds)
            => (g'[k].pc = "post" /\ g'[k].timeout_triggered)]_vars
  /\ [][\A k \in GIds :
          (TickTaken(k) /\ InactivityAtTick(k) <= inactivity_timeout_seconds)
            => ~g'[k].timeout_triggered]_vars
  /\ [](\A k \in GIds :
          (Done(k) /\ g[k].timeout_triggered /\ status = "active")
            => convs[g[k].cid].end_reason = "inactivity_timeout")

C9_Witness ==
  \E k \in GIds : /\ Done(k) /\ g[k].timeout_triggered /\ status = "active"
                  /\ convs[g[k].cid].end_reason = "inactivity_timeout"
                  /\ ~wait_for_queue_drain

\* C10 as stated: a conversation whose controller was past max_runtime when
\* it settled the end reason ends as max_duration.
C10_MaxDuration ==
  \A k \in GIds :
    (Done(k) /\ k \in hist.over_runtime)
      => convs[g[k].cid].end_reason = "max_duration"

\* C10 amended: an iteration past max_runtime leaves the loop without the
\* inactivity timeout; the conversation ends as max_duration unless the
\* session's completion_reason is websocket_disconnect (or the inactivity
\* timeout had fired); and a controller that reads a status other than
\* active at cleanup enqueues no speech-detection job.
C10_MaxDurationUnlessDisconnect ==
  /\ [][\A k \in GIds :
          (TickTaken(k) /\ now - g[k].start_time > max_runtime)
            => (g'[k].pc = "post" /\ ~g'[k].timeout_triggered)]_vars
  /\ [](\A k \in GIds :
          (Done(k) /\ k \in hist.over_runtime
           /\ ~g[k].timeout_triggered
           /\ completion_reason # "websocket_disconnect")
            => convs[g[k].cid].end_reason = "max_duration")
  /\ [][\A k \in GIds :
          (g[k].pc = "restart" /\ g'[k].pc = "done" /\ status # "active")
            => (f_queue' = f_queue /\ f_running' = f_running)]_vars

C10_Witness ==
  \E k \in GIds : /\ Done(k) /\ k \in hist.over_runtime
                  /\ convs[g[k].cid].end_reason = "max_duration"
                  /\ status # "active"
                  /\ FCount = 0

\* The controller k has found (or will find at its next iteration) that its
\* own job record is gone.
Zombie(k) == g[k].pc # "none" /\ k \notin g_records

\* C11: when a conversation closes, a fresh speech-detection job is enqueued
\* if and only if the session status read at cleanup is active, and its job
\* id differs from every speech-detection job id enqueued before in the
\* session.
C11_FreshSpeechDetection ==
  [][\A k \in GIds :
       (g[k].pc = "restart" /\ g'[k].pc = "done")
         => /\ (status = "active") <=> (Len(f_queue') = Len(f_queue) + 1)
            /\ Len(f_queue') > Len(f_queue)
                 => f_queue'[Len(f_queue')] \notin hist.f_enqueued]_vars

\* C12: a controller whose own job record has been purged enqueues neither
\* the post-processing chain nor a new speech-detection job.
C12_ZombieExits ==
  [][\A k \in GIds :
       Zombie(k) => /\ (g[k].cid \in chain') <=> (g[k].cid \in chain)
                    /\ (g[k].pc = "restart" => f_queue' = f_queue)]_vars

\* Every controller that has been launched and has not yet deleted the
\* results stream finds meaningful speech on it: the stream only grows until
\* the controller's own cleanup, and the launch was gated on it.
PostLoopHasSpeech ==
  \A k \in GIds :
    g[k].pc \in {"queued", "cascade", "signal", "loop", "post", "wait",
                 "markdel", "setpath", "enqueue", "cleanup"}
      => IsMeaningfulSpeech(Combined(stream))

\* C14: the post-processing chain of a conversation is enqueued only after
\* the controller has seen its audio file key; the controller gives up the
\* wait only once AudioFileWait seconds have passed without its seeing the
\* key, and then it has soft-deleted the conversation as
\* audio_file_not_ready, enqueued no chain, and has still run its cleanup
\* (end_reason and completed_at stored, conversation:current cleared, count
\* incremented).
C14_ChainOnlyAfterAudioFile ==
  /\ [](\A c \in chain : c \in audio_file /\ convs[c].audio_path)
  /\ [][\A k \in GIds :
          (g[k].pc = "wait" /\ g'[k].pc # "wait")
            => IF now - g[k].wait_start >= AudioFileWait
               THEN g'[k].pc = "markdel" /\ ~g'[k].file_path
               ELSE g'[k].pc = "setpath" /\ g[k].cid \in audio_file]_vars
  /\ [](\A k \in GIds :
          (g[k].pc \in {"cleanup", "persist", "count", "restart", "done"}
           /\ ~g[k].file_path)
            => /\ convs[g[k].cid].deleted
               /\ convs[g[k].cid].deletion_reason = "audio_file_not_ready"
               /\ g[k].cid \notin chain)
  /\ [](\A k \in GIds :
          (Done(k) /\ ~g[k].file_path)
            => /\ convs[g[k].cid].end_reason # "none"
               /\ convs[g[k].cid].completed_at # NoTime
               /\ g[k].conversation_count >= 1
               /\ conv_current # g[k].cid)

C14_Witness ==
  \E k \in GIds :
    /\ Done(k) /\ ~g[k].file_path /\ convs[g[k].cid].deleted
    /\ g[k].cid \notin audio_file
    /\ \E j \in GIds : Done(j) /\ g[j].file_path /\ g[j].cid \in chain

\* C15: cleanup always runs: whenever a controller has terminated after
\* creating its conversation (by returning or by an exception), end_reason
\* and completed_at are stored on the conversation, the count has been
\* incremented by it, and the results stream and conversation:current were
\* deleted by it.
C15_CleanupAlwaysRuns ==
  \A k \in GIds :
    (g[k].pc \in {"done", "crashed"} /\ g[k].cid # 0)
      => /\ convs[g[k].cid].end_reason # "none"
         /\ convs[g[k].cid].completed_at # NoTime
         /\ g[k].conversation_count >= 1
         /\ conv_current # g[k].cid

\* C19: a conversation with deleted = true has deletion_reason and
\* deleted_at set.
C19_DeletedHasReasonAndTime ==
  \A c \in Conversations :
    convs[c].deleted => (convs[c].deletion_reason # "none" /\ convs[c].deleted_at # NoTime)

C19_Witness ==
  \E c \in Conversations :
    convs[c].deleted /\ convs[c].deleted_at = now /\ convs[c].end_reason = "none"

\* C20: once a conversation is soft-deleted no later write changes its
\* document.
C20_DeletedNeverMutated ==
  [][\A c \in Conversations : convs[c].deleted => convs'[c] = convs[c]]_vars

Count(versions, version_id) ==
  Cardinality({i \in 1..Len(versions) : versions[i].version_id = version_id})

\* C17: when active_transcript_version (active_memory_version) is set, exactly
\* one element of transcript_versions (memory_versions) has that version id.
C17_ActiveNamesExactlyOne ==
  /\ doc.active_transcript_version # None
       => Count(doc.transcript_versions, doc.active_transcript_version) = 1
  /\ doc.active_memory_version # None
       => Count(doc.memory_versions, doc.active_memory_version) = 1

IsPrefix(old, new) ==
  /\ Len(old) <= Len(new)
  /\ \A i \in 1..Len(old) : new[i] = old[i]

Distinct(versions) ==
  \A i, n \in 1..Len(versions) :
    i # n => versions[i].version_id # versions[n].version_id

\* C21: every write to the document only appends: the transcript and memory
\* versions it held before are still there, unchanged and in place, and the
\* version ids within each list are pairwise distinct.
C21_AppendOnlyDistinctIds ==
  /\ [][/\ IsPrefix(doc.transcript_versions, doc'.transcript_versions)
        /\ IsPrefix(doc.memory_versions, doc'.memory_versions)]_vars
  /\ [](Distinct(doc.transcript_versions) /\ Distinct(doc.memory_versions))

\* A request has been answered in this step.
Answered == response' # response

\* The principal of the answer is no superuser and the conversation asked
\* for, as it was when the request came, belongs to somebody else.
StrangerAsked ==
  /\ db[response'.conversation_id].exists
  /\ ~response'.user.is_superuser
  /\ db[response'.conversation_id].user_id # response'.user.user_id

\* C22: every conversation operation of a non-superuser on a conversation of
\* another user is refused (403) and leaves the conversation, the files on
\* disk and the job queues unchanged.
C22_StrangerRefused ==
  [][(Answered /\ StrangerAsked)
       => /\ response'.status = 403
          /\ db' = db
          /\ disk' = disk
          /\ rq' = rq]_vars

C22_Witness ==
  /\ response.op = "delete"
  /\ response.status = 403
  /\ response.user = Bob
  /\ db["c1"].exists /\ db["c1"].user_id = "alice" /\ db["c1"].audio_path
  /\ "c1" \in disk

\* The answer an operation gives when no conversation has the id asked for.
StatusIfAbsent(op, user) ==
  CASE op \in {"get", "versions", "delete"} -> GetConversationStatus(NoConversation, user)
    [] op = "reprocess_transcript" -> ReprocessTranscriptStatus(NoConversation, user, FALSE)
    [] op = "reprocess_memory" -> ReprocessMemoryStatus(NoConversation, "active", user)
    [] op = "activate_transcript" -> ActivateTranscriptVersionStatus(NoConversation, "t1", user)
    [] op = "activate_memory" -> ActivateMemoryVersionStatus(NoConversation, "m1", user)
    [] op = "audio" -> GetConversationAudioPathStatus(NoConversation, user, FALSE)

\* C23: a non-superuser asking for a conversation of another user gets the
\* answer they would get if no conversation had that id.
C23_NoExistenceLeak ==
  [][(Answered /\ StrangerAsked)
       => response'.status = StatusIfAbsent(response'.op, response'.user)]_vars

\* C24: a reprocess request (transcript or memory) by the owner or a superuser
\* on a soft-deleted conversation is rejected with a validation error (400,
\* 404 or 422), and no reprocess request on a soft-deleted conversation
\* enqueues a job.
C24_ReprocessDeletedRejected ==
  [][(/\ Answered
      /\ response'.op \in {"reprocess_transcript", "reprocess_memory"}
      /\ db[response'.conversation_id].exists
      /\ db[response'.conversation_id].deleted)
       => /\ rq' = rq
          /\ ~StrangerAsked => response'.status \in {400, 404, 422}]_vars

C24_Witness ==
  /\ response.op = "reprocess_transcript"
  /\ response.status = 400
  /\ response.user = Alice
  /\ db["c1"].exists /\ db["c1"].deleted /\ db["c1"].user_id = "alice"
  /\ "c1" \in disk

\* C25: after a delete request that was accepted the conversation document is
\* still there as a tombstone, with deleted = true and a deletion_reason, and
\* its audio file is gone from disk.
C25_DeleteLeavesTombstone ==
  [][(Answered /\ response'.op = "delete" /\ response'.status = 200)
       => /\ db'[response'.conversation_id].exists
          /\ db'[response'.conversation_id].deleted
          /\ db'[response'.conversation_id].deletion_reason # None
          /\ response'.conversation_id \notin disk']_vars

HealthyEndReasons ==
  {"user_stopped", "inactivity_timeout", "websocket_disconnect", "max_duration"}

\* C29: a conversation whose end_reason is user_stopped, inactivity_timeout,
\* websocket_disconnect or max_duration has completed_at set, and completed_at
\* is not earlier than created_at.
C29_CompletedNotBeforeCreated ==
  \A c \in Conversations :
    convs[c].end_reason \in HealthyEndReasons
      => /\ convs[c].completed_at # NoTime
         /\ convs[c].completed_at >= convs[c].created_at

\* C26: M and U of one chain write disjoint fields, so whatever the
\* interleaving of their load and save steps, what either has saved stays in
\* the document: a generated title stays, and a memory version M has saved
\* stays in memory_versions.
C26_BothWritesSurvive ==
  [][/\ doc.title => doc'.title
     /\ \A v \in mem.issued :
          HasVersion(doc.memory_versions, v) => HasVersion(doc'.memory_versions, v)]_vars

\* C27: when process_memory_job comes to the primary-speakers filter with a
\* configured list none of whose names is among the speakers of the segments
\* of the active transcript, it returns skipped=true without calling the
\* memory provider and without touching the document; otherwise it calls
\* the provider.
C27_PrimarySpeakersFilter ==
  [][(mem.pc = "text" /\ mem'.pc # "text") =>
       IF mem'.primary_speakers # {} /\ mem'.primary_speakers \cap mem'.speakers = {}
       THEN /\ mem'.result.returned /\ mem'.result.success /\ mem'.result.skipped
            /\ ~mem'.add_memory_called
            /\ doc' = doc
       ELSE mem'.add_memory_called]_vars

\* C30: whatever way process_memory_job or generate_title_summary_job fails,
\* it returns a result with success=false, an error and the conversation_id:
\* a returned failure carries both keys, and a memory job that has failed
\* has returned such a result.
C30_FailuresAreStructured ==
  /\ \A r \in {mem.result, summary_job.result} :
       (r.returned /\ ~r.success) => (r.error /\ r.conversation_id)
  /\ jobs["M"] = "failed" => (mem.result.returned /\ ~mem.result.success)

\* C28: analyze_speech answers has_speech=true exactly when either there is
\* word-level data, at least MinWords of its words have a confidence of
\* MinConfidence or more, and from the start of the first such word to the
\* end of the last one there are MinDuration seconds or more; or there is no
\* word-level data and the text has at least MinWords words.
C28_HasSpeechExactly ==
  analysis.called =>
    LET words == analysis.words
        valid == {i \in 1..Len(words) : words[i].confidence >= MinConfidence}
        first == CHOOSE i \in valid : \A j \in valid : i <= j
        last == CHOOSE i \in valid : \A j \in valid : i >= j
    IN analysis.result.has_speech <=>
         \/ /\ Len(words) > 0
            /\ Cardinality(valid) >= MinWords
            /\ words[last].end - words[first].start >= MinDuration
         \/ /\ Len(words) = 0
            /\ analysis.text >= MinWords

\* Word-level data alone qualifies: two words at the confidence threshold
\* spanning exactly MinDuration, with a text too short for the fallback.
C28_Witness ==
  /\ analysis.called
  /\ analysis.result.has_speech
  /\ Len(analysis.words) = MaxWords
  /\ \A i \in 1..Len(analysis.words) : analysis.words[i].confidence = MinConfidence
  /\ analysis.result.duration = MinDuration
  /\ analysis.text < MinWords

\* C31: the session key is given an expiry only on a terminal transition: as
\* long as the session's status is active its key carries no expiry.
C31_ActiveSessionNoExpiry ==
  status = "active" => ~session_ttl

\* C33: the controller's initial actions run in the order insert, publish
\* conversation:current, cascade.  The pointer only ever names a stored
\* conversation; when the metadata reaches the speech-detection job the
\* pointer is already published; and a controller that dies in the cascade
\* has published it.
C33_InitialOrder ==
  /\ [](conv_current # 0 => conv_current \in 1..Len(convs))
  /\ [][\A k \in GIds :
          (g[k].pc = "cascade" /\ g'[k].pc # "cascade") => conv_current = g[k].cid]_vars

\* The iteration of controller k reaches the aggregate: it has not left the
\* loop as a zombie, on the session's end or on max runtime.
PullsAggregate(k) ==
  /\ k \in g_records
  /\ status \notin {"finalizing", "complete"}
  /\ ~RuntimeExceeded(now - g[k].start_time)

C36_ControllerLeavesSession ==
  [][\A k \in GIds :
       /\ g'[k] # g[k] => (status' = status /\ completion_reason' = completion_reason)
       /\ (~g[k].timeout_triggered /\ g'[k].timeout_triggered) =>
            (status = "active" /\ status' = "active")]_vars

\* A controller has closed its conversation on the inactivity timeout and
\* returned, and the session is still active.
C36_Witness ==
  \E k \in GIds :
    /\ Done(k)
    /\ g[k].timeout_triggered
    /\ g[k].end_reason = "inactivity_timeout"
    /\ status = "active"
    /\ completion_reason = "none"

\* The dict handle_end_of_conversation returns, which is the controller's
\* output on both of its paths.
ControllerOutput(k) ==
  [conversation_id |-> g[k].cid,
   conversation_count |-> g[k].conversation_count,
   deleted |-> FALSE,
   timeout_triggered |-> g[k].timeout_triggered,
   end_reason |-> g[k].end_reason]

\* C39: the deleted flag of a returned controller's output tells whether its
\* conversation is soft-deleted.
C39_OutputDeletedIsState ==
  \A k \in GIds :
    Done(k) => (ControllerOutput(k).deleted <=> convs[g[k].cid].deleted)

\* C38: a closing controller deletes conversation:current and the results
\* stream before a fresh speech-detection job is enqueued: the pointer is
\* only ever deleted by the controller of the conversation it names, while no
\* other controller is queued or running, and whenever a speech-detection
\* job is enqueued the pointer is already gone.
C38_CleanupBeforeRestart ==
  /\ [][conv_current # 0 /\ conv_current' = 0 =>
          \E k \in GIds : /\ g[k].cid = conv_current
                          /\ g[k].pc = "cleanup" /\ g'[k].pc = "persist"
                          /\ \A j \in GIds \ {k} : ~Active(j)
                          /\ FCount = 0]_vars
  /\ [][Len(f_queue') > Len(f_queue) => conv_current = 0]_vars

\* The second controller of a session has published its pointer after the
\* first one has cleaned up and returned.
C38_Witness ==
  \E k, j \in GIds :
    /\ Done(k)
    /\ InLoop(j)
    /\ conv_current = g[j].cid
    /\ g[j].cid # g[k].cid

\* C32: search_obsidian tells the stage it failed at.  When the embedding
\* raises it raises with stage "embedding" and has issued no query; when the
\* embedding is there and the query raises it raises with stage "database";
\* when the embedding is there and the query yields nothing it returns an
\* empty list of results.
C32_SearchReportsStage ==
  search.called =>
    /\ search.embedding = "raises" =>
         /\ search.result.outcome = "raised"
         /\ search.result.stage = "embedding"
         /\ ~search.result.queried
    /\ (search.embedding = "vector" /\ search.run.raises) =>
         /\ search.result.outcome = "raised"
         /\ search.result.stage = "database"
    /\ (search.embedding = "vector" /\ ~search.run.raises /\ search.run.records = <<>>) =>
         /\ search.result.outcome = "returned"
         /\ search.result.results = <<>>

\* A call whose embedding failed before any query was issued.
C32_Witness ==
  /\ search.called
  /\ search.embedding = "raises"
  /\ ~search.run.raises
  /\ search.result.stage = "embedding"
  /\ ~search.result.queried

\* C37: the controller's closing write of end_reason and completed_at never
\* loses a write of a chain job: a transcript version that the transcription
\* job has stored is still on the document after the controller's save, which
\* leaves end_reason and completed_at set next to it.
C37_CloseKeepsChainWrites ==
  [][end_write'.pc = "saved" /\ end_write.pc = "loaded"
       => /\ doc'.end_reason # None /\ doc'.completed_at
          /\ \A i \in 1..Len(doc.transcript_versions) :
               HasVersion(doc'.transcript_versions,
                          doc.transcript_versions[i].version_id)]_vars

\* C35: the memory version that the job of an accepted reprocess_memory
\* request stores names the transcript version the request asked for (the
\* one "active" stood for when it was answered), also when another
\* transcript version is active at the time the job runs.
C35_MemoryNamesRequestedTranscript ==
  [][\A c \in ConversationIds :
       (/\ response.op = "reprocess_memory"
        /\ response.status = 200
        /\ response.conversation_id = c
        /\ Len(db'[c].memory_versions) = Len(db[c].memory_versions) + 1)
       => db'[c].memory_versions[Len(db'[c].memory_versions)].transcript_version_id
            = response.transcript_version_id]_vars

\* C40: a reprocess request on a conversation that has jobs of an earlier
\* reprocess request waiting enqueues its own jobs next to them: every job
\* that was in the queue before the request is in the queue after it, with
\* the arguments and the dependency it was enqueued with.
C40_RequestsKeepEachOthersJobs ==
  [][rq' \ rq # {} => rq \subseteq rq']_vars

====
